---------------------------- MODULE Spec2Model ----------------------------
(***************************************************************************)
(* Model of the observability core of astra-chat's Shopify app:            *)
(*   app/utils/redact.server.ts      the redaction engine                  *)
(*   app/utils/logger.server.ts      the structured logger                 *)
(*   app/utils/request-id.server.ts  the correlation context, fetch patch  *)
(*   app/utils/config.server.ts      validateRequiredConfig                *)
(*   app/routes/webhooks.app.uninstalled.tsx   the webhook action          *)
(*                                                                         *)
(* A JavaScript string is a sequence of one-character strings, so that     *)
(* the regular expressions of the source can be applied position by        *)
(* position.  A JavaScript value is a record [t |-> tag, v |-> payload].   *)
(***************************************************************************)
EXTENDS Integers, Sequences, FiniteSets, TLC

\* ------------------------------------------------------------------------
\* Characters and regular-expression character classes
\* ------------------------------------------------------------------------

UpperLetters == <<"A","B","C","D","E","F","G","H","I","J","K","L","M","N","O","P","Q","R","S","T","U","V","W","X","Y","Z">>
LowerLetters == <<"a","b","c","d","e","f","g","h","i","j","k","l","m","n","o","p","q","r","s","t","u","v","w","x","y","z">>

Range(f) == {f[i] : i \in DOMAIN f}

Upper == Range(UpperLetters)
Lower == Range(LowerLetters)
Letter == Upper \cup Lower
Digit == Range(<<"0","1","2","3","4","5","6","7","8","9">>)
\* \s (the members the model uses) and the line terminators that "." excludes
Whitespace == {" ", "\t", "\n"}
LineTerminator == {"\n"}
\* \w
WordChar == Letter \cup Digit \cup {"_"}
\* [A-Za-z0-9_-]
B64UrlChar == Letter \cup Digit \cup {"_", "-"}
\* [A-Za-z0-9+/=_-]
OpaqueChar == Letter \cup Digit \cup {"+", "/", "=", "_", "-"}
\* [0-9a-f] under the i flag
HexChar == Digit \cup Range(<<"a","b","c","d","e","f","A","B","C","D","E","F">>)

SetMax(S) == CHOOSE x \in S : \A y \in S : y =< x
SetMin(S) == CHOOSE x \in S : \A y \in S : x =< y

toLowerCaseChar(c) ==
  IF c \in Upper
    THEN LowerLetters[CHOOSE i \in 1..26 : UpperLetters[i] = c]
    ELSE c

toLowerCase(s) ==
  IF s = <<>> THEN <<>> ELSE [i \in 1..Len(s) |-> toLowerCaseChar(s[i])]

\* the literal lit (given in lower case) stands at position i of s, under the i flag
MatchesAt(s, i, lit) ==
  /\ i >= 1
  /\ i + Len(lit) - 1 =< Len(s)
  /\ \A j \in 1..Len(lit) : toLowerCaseChar(s[i + j - 1]) = lit[j]

\* s contains lit somewhere (case-insensitive)
Includes(s, lit) == \E i \in 1..Len(s) : MatchesAt(s, i, lit)

\* s contains t as a substring (case-sensitive), String.prototype.includes
Contains(s, t) ==
  \E i \in 1..(Len(s) - Len(t) + 1) : \A j \in 1..Len(t) : s[i + j - 1] = t[j]

\* length of the longest run of characters of the set cls starting at position i
RunIn(s, i, cls) ==
  LET bad == {j \in i..Len(s) : s[j] \notin cls}
  IN  IF bad = {} THEN Len(s) - i + 1 ELSE SetMin(bad) - i

\* length of the longest run of characters outside the set excl starting at i
RunNotIn(s, i, excl) ==
  LET bad == {j \in i..Len(s) : s[j] \in excl}
  IN  IF bad = {} THEN Len(s) - i + 1 ELSE SetMin(bad) - i

\* s.split("."): the pieces between the dots, in order
SplitDots(s) ==
  LET dots == {i \in 1..Len(s) : s[i] = "."}
      n    == Cardinality(dots)
      \* the k-th dot, with position 0 before the first and Len(s) + 1 after the last
      dot(k) == IF k = 0 THEN 0
                ELSE IF k = n + 1 THEN Len(s) + 1
                ELSE CHOOSE d \in dots : Cardinality({e \in dots : e < d}) = k - 1
  IN  [k \in 1..(n + 1) |-> SubSeq(s, dot(k - 1) + 1, dot(k) - 1)]

\* ------------------------------------------------------------------------
\* Markers
\* ------------------------------------------------------------------------

REDACTED == <<"[","R","E","D","A","C","T","E","D","]">>
OMITTED_MARK == <<"[","O","M","I","T","T","E","D","]">>
TRUNCATED_MARK == <<"[","T","r","u","n","c","a","t","e","d","]">>
BEARER_REDACTED == <<"B","e","a","r","e","r"," ","[","R","E","D","A","C","T","E","D","]">>

\* ------------------------------------------------------------------------
\* Token-ish patterns (whole-string tests)
\* ------------------------------------------------------------------------

\* three non-empty pieces of [A-Za-z0-9_-]
JwtParts(parts) ==
  /\ Len(parts) = 3
  /\ \A k \in 1..3 : parts[k] # <<>> /\ \A j \in 1..Len(parts[k]) : parts[k][j] \in B64UrlChar

\* /^[A-Za-z0-9_-]+\.[A-Za-z0-9_-]+\.[A-Za-z0-9_-]+$/
JWT_RE(s) == JwtParts(SplitDots(s))

ShopifyPrefixes == {<<"s","h","p","a","t","_">>, <<"s","h","p","u","a","_">>, <<"s","h","p","c","a","_">>, <<"s","h","p","s","s","_">>, <<"s","h","p","p","a","_">>}

\* /(shpat_|shpua_|shpca_|shpss_|shppa_)/i
SHOPIFY_TOKEN_PREFIX_RE(s) == \E p \in ShopifyPrefixes : Includes(s, p)

\* /^Bearer\s+/i
BEARER_RE(s) == MatchesAt(s, 1, <<"b","e","a","r","e","r">>) /\ Len(s) >= 7 /\ s[7] \in Whitespace

LongOpaqueMin == 32

\* /^[A-Za-z0-9+/=_-]{32,}$/
LONG_OPAQUE_RE(s) == Len(s) >= LongOpaqueMin /\ \A j \in 1..Len(s) : s[j] \in OpaqueChar

\* /^[0-9a-f]{8}-[0-9a-f]{4}-[0-9a-f]{4}-[0-9a-f]{4}-[0-9a-f]{12}$/i
UUID_RE(s) ==
  /\ Len(s) = 36
  /\ \A j \in 1..36 : IF j \in {9, 14, 19, 24} THEN s[j] = "-" ELSE s[j] \in HexChar

JwtThirdMin == 12

\* the checks of isLikelyJwtTripleSegment on parts = s.split(".")
IsLikelyJwtParts(parts) ==
  IF Len(parts) # 3 THEN FALSE
  \* /^[A-Za-z]{2,10}$/.test(third)
  ELSE IF Len(parts[3]) >= 2 /\ Len(parts[3]) =< 10 /\ \A j \in 1..Len(parts[3]) : parts[3][j] \in Letter
    THEN FALSE
  ELSE IF Len(parts[3]) < JwtThirdMin THEN FALSE
  ELSE TRUE

isLikelyJwtTripleSegment(s) == IF ~JWT_RE(s) THEN FALSE ELSE IsLikelyJwtParts(SplitDots(s))

\* ------------------------------------------------------------------------
\* Substring scrubbing: s.replace(/(key sep+)value+/gi, "$1[REDACTED]")
\* ------------------------------------------------------------------------

\* A key/value pattern: the alternatives of its literal key (lower case), the
\* separator class with its minimum count, and the characters that end the value.
Pat(kws, sep, minSep, excl) ==
  [kind |-> "ksv", kws |-> kws, sep |-> sep, minSep |-> minSep, excl |-> excl]

\* /(bearer\s+)[^\s,]+/gi
PAT_BEARER == Pat({<<"b","e","a","r","e","r">>}, Whitespace, 1, Whitespace \cup {","})
\* /(authorization[:\s]+)[^\s,]+/gi
PAT_AUTHORIZATION == Pat({<<"a","u","t","h","o","r","i","z","a","t","i","o","n">>}, Whitespace \cup {":"}, 1, Whitespace \cup {","})
\* /(token[:\s=]+)[^\s,&]+/gi
PAT_TOKEN == Pat({<<"t","o","k","e","n">>}, Whitespace \cup {":", "="}, 1, Whitespace \cup {",", "&"})
\* /(access[_-]?token[:\s=]+)[^\s,&]+/gi
PAT_ACCESS_TOKEN ==
  Pat({<<"a","c","c","e","s","s","t","o","k","e","n">>, <<"a","c","c","e","s","s","_","t","o","k","e","n">>, <<"a","c","c","e","s","s","-","t","o","k","e","n">>},
      Whitespace \cup {":", "="}, 1, Whitespace \cup {",", "&"})
\* /(refresh[_-]?token[:\s=]+)[^\s,&]+/gi
PAT_REFRESH_TOKEN ==
  Pat({<<"r","e","f","r","e","s","h","t","o","k","e","n">>, <<"r","e","f","r","e","s","h","_","t","o","k","e","n">>, <<"r","e","f","r","e","s","h","-","t","o","k","e","n">>},
      Whitespace \cup {":", "="}, 1, Whitespace \cup {",", "&"})
\* /(hmac[:\s=]+)[^\s,&]+/gi
PAT_HMAC == Pat({<<"h","m","a","c">>}, Whitespace \cup {":", "="}, 1, Whitespace \cup {",", "&"})
\* /(code=)[^&\s]+/gi
PAT_CODE == Pat({<<"c","o","d","e","=">>}, {}, 0, Whitespace \cup {"&"})
\* /(state=)[^&\s]+/gi
PAT_STATE == Pat({<<"s","t","a","t","e","=">>}, {}, 0, Whitespace \cup {"&"})
\* /\b[A-Z0-9._%+-]+@[A-Z0-9.-]+\.[A-Z]{2,}\b/gi
PAT_EMAIL == [kind |-> "email"]
\* /\+?\d[\d\s().-]{7,}\d/g
PAT_PHONE == [kind |-> "phone"]

NoMatch == <<0, 0>>

\* A match of a key/value pattern whose key ends before position p:
\* <<end of $1, end of the match>>.  The separator run is greedy and gives
\* characters back until a value character follows it; the value run is greedy.
MatchKsvAfterKey(s, p, pat) ==
  LET ns == {n \in pat.minSep..RunIn(s, p, pat.sep) : p + n =< Len(s) /\ s[p + n] \notin pat.excl}
  IN  IF ns = {} THEN NoMatch
      ELSE <<p + SetMax(ns) - 1, p + SetMax(ns) - 1 + RunNotIn(s, p + SetMax(ns), pat.excl)>>

\* A match of a key/value pattern at position i
MatchKsv(s, i, pat) ==
  IF \A k \in pat.kws : ~MatchesAt(s, i, k) THEN NoMatch
  ELSE MatchKsvAfterKey(s, i + Len(CHOOSE k \in pat.kws : MatchesAt(s, i, k)), pat)

EmailLocalChar == Letter \cup Digit \cup {".", "_", "%", "+", "-"}
EmailDomainChar == Letter \cup Digit \cup {".", "-"}

\* \b between positions i-1 and i
WordBoundary(s, i) ==
  ((i >= 2 /\ i - 1 =< Len(s) /\ s[i - 1] \in WordChar)) # ((i =< Len(s) /\ s[i] \in WordChar))

\* A match of the e-mail pattern whose "@" stands before position q:
\* the domain run gives characters back until "." + letters{2,} + \b follows
MatchEmailDomain(s, i, q) ==
  LET ns == {n \in 1..RunIn(s, q, EmailDomainChar) :
               /\ q + n =< Len(s)
               /\ s[q + n] = "."
               /\ RunIn(s, q + n + 1, Letter) >= 2
               /\ WordBoundary(s, q + n + 1 + RunIn(s, q + n + 1, Letter))}
  IN  IF ns = {} THEN NoMatch
      ELSE <<i - 1, q + SetMax(ns) + RunIn(s, q + SetMax(ns) + 1, Letter)>>

\* A match of the e-mail pattern at position i: <<i - 1, end of the match>>.
MatchEmailLocal(s, i, a) ==
  IF ~WordBoundary(s, i) \/ a = 0 \/ i + a > Len(s) THEN NoMatch
  ELSE IF s[i + a] # "@" THEN NoMatch
  ELSE MatchEmailDomain(s, i, i + a + 1)

MatchEmail(s, i) == MatchEmailLocal(s, i, RunIn(s, i, EmailLocalChar))

PhoneChar == Digit \cup Whitespace \cup {"(", ")", ".", "-"}
PhoneMinMiddle == 7

\* A match of the phone pattern whose first digit stands at position d0
MatchPhoneFrom(s, i, d0) ==
  LET ns == {n \in PhoneMinMiddle..RunIn(s, d0 + 1, PhoneChar) :
               d0 + n + 1 =< Len(s) /\ s[d0 + n + 1] \in Digit}
  IN  IF d0 > Len(s) THEN NoMatch
      ELSE IF s[d0] \notin Digit THEN NoMatch
      ELSE IF ns = {} THEN NoMatch
      ELSE <<i - 1, d0 + SetMax(ns) + 1>>

\* A match of the phone pattern at position i: <<i - 1, end of the match>>.
MatchPhone(s, i) == MatchPhoneFrom(s, i, IF s[i] = "+" THEN i + 1 ELSE i)

MatchAt(s, i, pat) ==
  CASE pat.kind = "ksv"   -> MatchKsv(s, i, pat)
    [] pat.kind = "email" -> MatchEmail(s, i)
    [] pat.kind = "phone" -> MatchPhone(s, i)

\* the leftmost match at or after position i: <<start, end of $1, end>>
FirstMatch(s, i, pat) ==
  LET ms == {<<j>> \o MatchAt(s, j, pat) : j \in i..Len(s)} \ {<<j>> \o NoMatch : j \in i..Len(s)}
  IN  IF ms = {} THEN <<0, 0, 0>> ELSE CHOOSE m \in ms : \A o \in ms : m[1] =< o[1]

\* String.prototype.replace with a global pattern: leftmost matches, left to
\* right, each replaced by what it keeps ($1) followed by the marker.
RECURSIVE ReplaceFrom(_, _, _)
ReplaceMatch(s, i, pat, m) ==
  IF m[1] = 0 THEN SubSeq(s, i, Len(s))
  ELSE SubSeq(s, i, m[2]) \o REDACTED \o ReplaceFrom(s, m[3] + 1, pat)

ReplaceFrom(s, i, pat) == ReplaceMatch(s, i, pat, FirstMatch(s, i, pat))

\* s.replace(p1, ..).replace(p2, ..) ... in the order of pats, from the i-th on
RECURSIVE ReplaceEach(_, _, _)
ReplaceEach(s, pats, i) ==
  IF i > Len(pats) THEN s ELSE ReplaceEach(ReplaceFrom(s, 1, pats[i]), pats, i + 1)

\* ------------------------------------------------------------------------
\* logger.server.ts: string scrubbing
\* ------------------------------------------------------------------------

SCRUB_PATTERNS ==
  <<PAT_BEARER, PAT_AUTHORIZATION, PAT_TOKEN, PAT_ACCESS_TOKEN, PAT_REFRESH_TOKEN,
    PAT_HMAC, PAT_CODE, PAT_STATE>>

\* Scrub common secret-bearing substrings inside strings
scrubString(s) == ReplaceEach(s, SCRUB_PATTERNS, 1)

\* redactTokenishString without its rule for the platform token prefixes
redactTokenishString_noPrefixRule(s) ==
  IF BEARER_RE(s) THEN BEARER_REDACTED
  ELSE IF isLikelyJwtTripleSegment(s) THEN REDACTED
  ELSE IF UUID_RE(s) THEN s
  ELSE IF LONG_OPAQUE_RE(s) THEN REDACTED
  ELSE s

redactTokenishString(s) ==
  IF BEARER_RE(s) THEN BEARER_REDACTED
  ELSE IF isLikelyJwtTripleSegment(s) THEN REDACTED
  ELSE IF SHOPIFY_TOKEN_PREFIX_RE(s) THEN REDACTED
  ELSE IF UUID_RE(s) THEN s
  ELSE IF LONG_OPAQUE_RE(s) THEN REDACTED
  ELSE s

MessageJwtMin == 30

\* redactLogMessage once scrubString has run
redactScrubbedMessage_logger(scrubbed) ==
  IF BEARER_RE(scrubbed) THEN BEARER_REDACTED
  ELSE IF SHOPIFY_TOKEN_PREFIX_RE(scrubbed) THEN REDACTED
  ELSE IF LONG_OPAQUE_RE(scrubbed) THEN REDACTED
  ELSE IF JWT_RE(scrubbed) /\ Len(scrubbed) >= MessageJwtMin THEN REDACTED
  ELSE scrubbed

redactLogMessage_logger(message) == redactScrubbedMessage_logger(scrubString(message))

\* ------------------------------------------------------------------------
\* redact.server.ts: string scrubbing
\* ------------------------------------------------------------------------

scrubCommonSubstrings(s) == ReplaceEach(s, SCRUB_PATTERNS \o <<PAT_EMAIL, PAT_PHONE>>, 1)

\* redactString once scrubCommonSubstrings has run
redactScrubbedString(scrubbed) ==
  IF BEARER_RE(scrubbed) THEN BEARER_REDACTED
  ELSE IF isLikelyJwtTripleSegment(scrubbed) THEN REDACTED
  ELSE IF SHOPIFY_TOKEN_PREFIX_RE(scrubbed) THEN REDACTED
  ELSE IF UUID_RE(scrubbed) THEN scrubbed
  ELSE IF LONG_OPAQUE_RE(scrubbed) THEN REDACTED
  ELSE scrubbed

\* Aggressive redaction for arbitrary string values in meta
redactString(value) == redactScrubbedString(scrubCommonSubstrings(value))

\* redactLogMessage once scrubCommonSubstrings has run
redactScrubbedMessage_redact(scrubbed) ==
  IF BEARER_RE(scrubbed) THEN BEARER_REDACTED
  ELSE IF isLikelyJwtTripleSegment(scrubbed) /\ Len(scrubbed) >= MessageJwtMin THEN REDACTED
  ELSE IF SHOPIFY_TOKEN_PREFIX_RE(scrubbed) THEN REDACTED
  ELSE scrubbed

\* Conservative redaction for the log "message" field
redactLogMessage_redact(message) == redactScrubbedMessage_redact(scrubCommonSubstrings(message))

sanitizeErrorMessage(message) == redactString(message)

\* ------------------------------------------------------------------------
\* JavaScript values
\* ------------------------------------------------------------------------

Str(s) == [t |-> "string", v |-> s]
Num(n) == [t |-> "number", v |-> n]
Bool(b) == [t |-> "boolean", v |-> b]
BigIntV(n) == [t |-> "bigint", v |-> n]
Null == [t |-> "null", v |-> 0]
Undefined == [t |-> "undefined", v |-> 0]
\* an array: the sequence of its elements
Arr(a) == [t |-> "array", v |-> a]
\* a plain object: its own enumerable entries <<key, value>>, in Object.entries order
Obj(e) == [t |-> "object", v |-> e]
\* thrown values that are not plain data
ErrorV(name, message) == [t |-> "error", v |-> <<name, message>>]
ResponseV(status) == [t |-> "response", v |-> status]

IsNullish(x) == x.t \in {"null", "undefined"}

HasKey(o, k) == o.t = "object" /\ \E i \in 1..Len(o.v) : o.v[i][1] = k

\* o[k], undefined when o has no own property k
Get(o, k) ==
  IF HasKey(o, k)
    THEN o.v[CHOOSE i \in 1..Len(o.v) : o.v[i][1] = k][2]
    ELSE Undefined

\* o[k] = x: an existing property keeps its place, a new one goes last
Put(o, k, x) ==
  IF HasKey(o, k)
    THEN Obj([i \in 1..Len(o.v) |-> IF o.v[i][1] = k THEN <<k, x>> ELSE o.v[i]])
    ELSE Obj(Append(o.v, <<k, x>>))

DigitSeq == <<"0","1","2","3","4","5","6","7","8","9">>

\* String(n) for an integer n >= 0
RECURSIVE ToDecimal(_)
ToDecimal(n) ==
  IF n < 10 THEN <<DigitSeq[n + 1]>>
  ELSE ToDecimal(n \div 10) \o <<DigitSeq[(n % 10) + 1]>>

\* {...x}: the own enumerable properties of x
SpreadEntries(x) ==
  CASE x.t = "object" -> x.v
    [] x.t = "array"  -> [i \in 1..Len(x.v) |-> <<ToDecimal(i - 1), x.v[i]>>]
    [] x.t = "string" -> [i \in 1..Len(x.v) |-> <<ToDecimal(i - 1), Str(<<x.v[i]>>)>>]
    [] OTHER          -> <<>>

\* { ...o, ...es }: a key of o keeps its place and takes the later value
PutAll(o, es) ==
  Obj([i \in 1..Len(o.v) |->
         IF \E j \in 1..Len(es) : es[j][1] = o.v[i][1]
           THEN es[CHOOSE j \in 1..Len(es) : es[j][1] = o.v[i][1]]
           ELSE o.v[i]]
      \o SelectSeq(es, LAMBDA e : ~HasKey(o, e[1])))

\* ------------------------------------------------------------------------
\* Key policy
\* ------------------------------------------------------------------------

ALLOW_KEYS ==
  {<<"s","h","o","p">>, <<"s","h","o","p","d","o","m","a","i","n">>, <<"s","h","o","p","_","d","o","m","a","i","n">>, <<"m","e","r","c","h","a","n","t","i","d">>, <<"r","e","q","u","e","s","t","i","d">>, <<"e","v","e","n","t","t","y","p","e">>, <<"o","u","t","c","o","m","e">>}

\* the alternatives shared by the two sensitive-key patterns
SensitiveCommon ==
  {<<"t","o","k","e","n">>, <<"a","c","c","e","s","s","t","o","k","e","n">>, <<"a","c","c","e","s","s","_","t","o","k","e","n">>, <<"a","c","c","e","s","s","-","t","o","k","e","n">>,
   <<"r","e","f","r","e","s","h","t","o","k","e","n">>, <<"r","e","f","r","e","s","h","_","t","o","k","e","n">>, <<"r","e","f","r","e","s","h","-","t","o","k","e","n">>,
   <<"a","u","t","h","o","r","i","z","a","t","i","o","n">>, <<"b","e","a","r","e","r">>, <<"j","w","t">>, <<"i","d","t","o","k","e","n">>, <<"i","d","_","t","o","k","e","n">>, <<"i","d","-","t","o","k","e","n">>,
   <<"c","l","i","e","n","t","s","e","c","r","e","t">>, <<"c","l","i","e","n","t","_","s","e","c","r","e","t">>, <<"c","l","i","e","n","t","-","s","e","c","r","e","t">>, <<"s","e","c","r","e","t">>,
   <<"a","p","i","k","e","y">>, <<"a","p","i","_","k","e","y">>, <<"a","p","i","-","k","e","y">>, <<"p","r","i","v","a","t","e","k","e","y">>, <<"p","r","i","v","a","t","e","_","k","e","y">>, <<"p","r","i","v","a","t","e","-","k","e","y">>,
   <<"e","n","c","r","y","p","t","i","o","n","k","e","y">>, <<"e","n","c","r","y","p","t","i","o","n","_","k","e","y">>, <<"e","n","c","r","y","p","t","i","o","n","-","k","e","y">>,
   <<"h","m","a","c">>, <<"s","i","g","n","a","t","u","r","e">>, <<"c","o","d","e">>, <<"s","t","a","t","e">>, <<"e","m","a","i","l">>, <<"p","h","o","n","e">>, <<"a","d","d","r","e","s","s">>, <<"p","a","s","s","w","o","r","d">>}

BodyAlternatives == {<<"p","a","y","l","o","a","d">>, <<"r","a","w","b","o","d","y">>, <<"r","e","q","u","e","s","t","b","o","d","y">>, <<"b","o","d","y">>}

\* /^(?:.*)(a|b|...)(?:.*)$/i: an alternative stands in k, with no line
\* terminator before or after it ("." does not match one)
AnchoredAny(k, alts) ==
  \E a \in alts : \E i \in 1..Len(k) :
     /\ MatchesAt(k, i, a)
     /\ \A j \in (1..(i - 1)) \cup ((i + Len(a))..Len(k)) : k[j] \notin LineTerminator

\* logger.server.ts SENSITIVE_KEY_RE
SENSITIVE_KEY_RE_logger(k) == AnchoredAny(k, SensitiveCommon \cup BodyAlternatives)
\* logger.server.ts /payload|rawBody|requestBody|body/i
BodyKeyTest_logger(k) == \E a \in BodyAlternatives : Includes(k, a)

\* redact.server.ts SENSITIVE_KEY_RE
SENSITIVE_KEY_RE_redact(k) == AnchoredAny(k, SensitiveCommon \cup {<<"s","s","n">>, <<"d","o","b">>})
\* redact.server.ts BODY_KEY_RE
BODY_KEY_RE(k) == AnchoredAny(k, BodyAlternatives)

TRUNCATED_KEY == <<"_","_","t","r","u","n","c","a","t","e","d","_","_">>
ERROR_MESSAGE_KEY == <<"e","r","r","o","r","M","e","s","s","a","g","e">>

MaxDepth == 6
ArrayCap == 50
EntryCap == 100

\* the first n elements of a sequence (all of them when it has fewer)
FirstN(a, n) == IF Len(a) > n THEN SubSeq(a, 1, n) ELSE a

\* the marker field set whatever the number of entries
MarkTruncated_always(out, input) == Put(out, TRUNCATED_KEY, Bool(TRUE))

\* out.__truncated__ = true, when the loop met a 101st entry
MarkTruncated(out, input) ==
  IF Len(input.v) > EntryCap THEN Put(out, TRUNCATED_KEY, Bool(TRUE)) ELSE out

\* ------------------------------------------------------------------------
\* logger.server.ts: sanitizeValue, sanitizeMeta
\* ------------------------------------------------------------------------

sanitizeValue_logger(x) ==
  IF x.t = "string" THEN Str(redactTokenishString(scrubString(x.v))) ELSE x

RECURSIVE sanitizeMeta_logger(_, _)

\* the loop turn with allowlisted values kept as they are
sanitizeEntry_allowRaw(k, x, depth) ==
  IF toLowerCase(k) \in ALLOW_KEYS THEN x
  ELSE IF SENSITIVE_KEY_RE_logger(k)
    THEN (IF BodyKeyTest_logger(k) THEN Str(OMITTED_MARK) ELSE Str(REDACTED))
  ELSE sanitizeMeta_logger(sanitizeValue_logger(x), depth + 1)

\* the loop turn with the depth left at its default in the recursive call
sanitizeEntry_depthDefault(k, x, depth) ==
  IF toLowerCase(k) \in ALLOW_KEYS THEN sanitizeMeta_logger(sanitizeValue_logger(x), 0)
  ELSE IF SENSITIVE_KEY_RE_logger(k)
    THEN (IF BodyKeyTest_logger(k) THEN Str(OMITTED_MARK) ELSE Str(REDACTED))
  ELSE sanitizeMeta_logger(sanitizeValue_logger(x), 0)

\* the loop turn with a key-name rule that also takes errorMessage
sanitizeEntry_blankErrorMessage(k, x, depth) ==
  IF toLowerCase(k) \in ALLOW_KEYS THEN sanitizeMeta_logger(sanitizeValue_logger(x), depth + 1)
  ELSE IF SENSITIVE_KEY_RE_logger(k) \/ k = ERROR_MESSAGE_KEY
    THEN (IF BodyKeyTest_logger(k) THEN Str(OMITTED_MARK) ELSE Str(REDACTED))
  ELSE sanitizeMeta_logger(sanitizeValue_logger(x), depth + 1)

\* the value stored under key k by one turn of the loop over Object.entries
sanitizeEntry_logger(k, x, depth) ==
  LET nk == toLowerCase(k)
  IN  IF nk \in ALLOW_KEYS THEN sanitizeMeta_logger(sanitizeValue_logger(x), depth + 1)
      ELSE IF SENSITIVE_KEY_RE_logger(k)
        THEN (IF BodyKeyTest_logger(k) THEN Str(OMITTED_MARK) ELSE Str(REDACTED))
      ELSE sanitizeMeta_logger(sanitizeValue_logger(x), depth + 1)

sanitizeMeta_logger(input, depth) ==
  IF depth > MaxDepth THEN Str(TRUNCATED_MARK)
  ELSE IF IsNullish(input) THEN input
  ELSE IF input.t = "array"
    \* input.slice(0, 50).map((x) => sanitizeMeta(x, depth + 1))
    THEN Arr([i \in 1..Len(FirstN(input.v, ArrayCap)) |-> sanitizeMeta_logger(input.v[i], depth + 1)])
  ELSE IF input.t = "object"
    THEN MarkTruncated(
           Obj([i \in 1..Len(FirstN(input.v, EntryCap)) |->
                 <<input.v[i][1], sanitizeEntry_logger(input.v[i][1], input.v[i][2], depth)>>]),
           input)
  ELSE sanitizeValue_logger(input)

\* ------------------------------------------------------------------------
\* redact.server.ts: sanitizeValue, sanitizeMeta, redactForLogs
\* ------------------------------------------------------------------------

sanitizeValue_redact(x) == IF x.t = "string" THEN Str(redactString(x.v)) ELSE x

RECURSIVE sanitizeMeta_redact(_, _)

sanitizeEntry_redact(k, x, depth) ==
  LET nk == toLowerCase(k)
  IN  IF nk \in ALLOW_KEYS THEN sanitizeMeta_redact(x, depth + 1)
      ELSE IF nk = toLowerCase(ERROR_MESSAGE_KEY) /\ x.t = "string"
        THEN Str(sanitizeErrorMessage(x.v))
      ELSE IF BODY_KEY_RE(nk) THEN Str(OMITTED_MARK)
      ELSE IF SENSITIVE_KEY_RE_redact(nk) THEN Str(REDACTED)
      ELSE sanitizeMeta_redact(sanitizeValue_redact(x), depth + 1)

sanitizeMeta_redact(input, depth) ==
  IF depth > MaxDepth THEN Str(TRUNCATED_MARK)
  ELSE IF IsNullish(input) THEN input
  ELSE IF input.t = "string" THEN Str(redactString(input.v))
  ELSE IF input.t = "array"
    \* input.slice(0, 50).map((x) => sanitizeMeta(x, depth + 1))
    THEN Arr([i \in 1..Len(FirstN(input.v, ArrayCap)) |-> sanitizeMeta_redact(input.v[i], depth + 1)])
  ELSE IF input.t = "object"
    THEN MarkTruncated(
           Obj([i \in 1..Len(FirstN(input.v, EntryCap)) |->
                 <<input.v[i][1], sanitizeEntry_redact(input.v[i][1], input.v[i][2], depth)>>]),
           input)
  ELSE sanitizeValue_redact(input)

redactForLogs(meta) == sanitizeMeta_redact(meta, 0)

\* ------------------------------------------------------------------------
\* logger.server.ts: emit, logger, logEvent
\* ------------------------------------------------------------------------

toUpperLevel(level) ==
  CASE level = "debug" -> <<"D","E","B","U","G">>
    [] level = "info"  -> <<"I","N","F","O">>
    [] level = "warn"  -> <<"W","A","R","N">>
    [] level = "error" -> <<"E","R","R","O","R">>

MISSING_REQUEST_ID == <<"m","i","s","s","i","n","g","-","r","e","q","u","e","s","t","-","i","d">>

\* new Date(ms).toISOString() for the first second of the epoch
toISOString(ms) ==
  <<"1","9","7","0","-","0","1","-","0","1","T","0","0",":","0","0",":","0","0",".">> \o
  (IF ms < 10 THEN <<"0","0">> ELSE IF ms < 100 THEN <<"0">> ELSE <<>>) \o ToDecimal(ms) \o <<"Z">>

\* JSON.stringify throws a TypeError on a BigInt, at any depth
RECURSIVE HasBigInt(_)
HasBigInt(x) ==
  CASE x.t = "bigint" -> TRUE
    [] x.t = "array"  -> \E i \in 1..Len(x.v) : HasBigInt(x.v[i])
    [] x.t = "object" -> \E i \in 1..Len(x.v) : HasBigInt(x.v[i][2])
    [] OTHER          -> FALSE

\* JSON.parse(JSON.stringify(x)): a property holding undefined is left out,
\* an array element holding undefined becomes null
RECURSIVE JsonRoundTrip(_)
JsonRoundTrip(x) ==
  CASE x.t = "array" ->
         Arr([i \in 1..Len(x.v) |->
               IF x.v[i].t = "undefined" THEN Null ELSE JsonRoundTrip(x.v[i])])
    [] x.t = "object" ->
         LET keep == SelectSeq(x.v, LAMBDA e : e[2].t # "undefined")
         IN  Obj([i \in 1..Len(keep) |-> <<keep[i][1], JsonRoundTrip(keep[i][2])>>])
    [] OTHER -> x

\* the console method a level writes to
ConsoleMethod(level) ==
  CASE level = "error" -> "error"
    [] level = "warn"  -> "warn"
    [] level = "debug" -> "debug"
    [] OTHER           -> "log"

TypeErrorV(message) == ErrorV(<<"T","y","p","e","E","r","r","o","r">>, message)

\* the thrown TypeError, or the console call made
EmitThrew(message) ==
  [threw |-> TRUE, error |-> TypeErrorV(message), method |-> "none", line |-> Undefined]

\* safeMeta.errorMessage = redactTokenishString(scrubString(safeMeta.errorMessage))
RescrubErrorMessage(safeMeta) ==
  IF Get(safeMeta, ERROR_MESSAGE_KEY).t = "string"
    THEN Put(safeMeta, ERROR_MESSAGE_KEY,
             Str(redactTokenishString(scrubString(Get(safeMeta, ERROR_MESSAGE_KEY).v))))
    ELSE safeMeta

\* the payload with getRequestId() written as it is, without the fallback
EmitPayload_noFallback(sev, safeMessage, safeMeta, rid, now) ==
  PutAll(Obj(<< <<<<"t","i","m","e","s","t","a","m","p">>, Str(toISOString(now))>>,
               <<<<"l","e","v","e","l">>, Str(sev)>>,
               <<<<"s","e","v","e","r","i","t","y">>, Str(sev)>>,
               <<<<"m","e","s","s","a","g","e">>, Str(safeMessage)>>,
               <<<<"r","e","q","u","e","s","t","I","d">>, rid>> >>),
         SpreadEntries(safeMeta))

\* const payload = { timestamp, level, severity, message, requestId, ...safeMeta }
EmitPayload(sev, safeMessage, safeMeta, rid, now) ==
  PutAll(Obj(<< <<<<"t","i","m","e","s","t","a","m","p">>, Str(toISOString(now))>>,
               <<<<"l","e","v","e","l">>, Str(sev)>>,
               <<<<"s","e","v","e","r","i","t","y">>, Str(sev)>>,
               <<<<"m","e","s","s","a","g","e">>, Str(safeMessage)>>,
               <<<<"r","e","q","u","e","s","t","I","d">>, IF rid.t = "undefined" THEN Str(MISSING_REQUEST_ID) ELSE rid>> >>),
         SpreadEntries(safeMeta))

\* const line = JSON.stringify(payload); console[...](line)
EmitWrite(level, payload) ==
  IF HasBigInt(payload) THEN EmitThrew(<<"D","o"," ","n","o","t"," ","k","n","o","w"," ","h","o","w"," ","t","o"," ","s","e","r","i","a","l","i","z","e"," ","a"," ","B","i","g","I","n","t">>)
  ELSE [threw |-> FALSE, error |-> Undefined,
        method |-> ConsoleMethod(level), line |-> JsonRoundTrip(payload)]

\* emit(level, message, meta) with getRequestId() = rid and Date.now() = now.
\* The result is what the call did: the line it wrote (as JSON.parse reads it
\* back) and the console method it used, or the error it threw.
emit(level, message, meta, rid, now) ==
  \* scrubString(message) calls message.replace
  IF message.t # "string" THEN EmitThrew(<<"s",".","r","e","p","l","a","c","e"," ","i","s"," ","n","o","t"," ","a"," ","f","u","n","c","t","i","o","n">>)
  ELSE EmitWrite(level,
         EmitPayload(toUpperLevel(level), redactLogMessage_logger(message.v),
                     RescrubErrorMessage(
                       sanitizeMeta_logger(IF IsNullish(meta) THEN Obj(<<>>) ELSE meta, 0)),
                     rid, now))

\* logEvent(message, meta): the level it derives
logEventLevel(meta) ==
  IF Get(meta, <<"o","u","t","c","o","m","e">>) = Str(<<"f","a","i","l","u","r","e">>) THEN "error" ELSE "info"

logEvent(message, meta, rid, now) == emit(logEventLevel(meta), message, meta, rid, now)

\* a call of emit seen from its caller: the line written, and return or throw
EmitOutcome(r) ==
  IF r.threw
    THEN [written |-> <<>>, outcome |-> [kind |-> "throw", value |-> r.error]]
    ELSE [written |-> <<r>>, outcome |-> [kind |-> "return", value |-> Undefined]]

\* ------------------------------------------------------------------------
\* logger.server.ts: withEventLogging
\* ------------------------------------------------------------------------

REDIRECT_STATUSES == {301, 302, 303, 307, 308}

\* String(x)
JsString(x) ==
  CASE x.t = "string"    -> x.v
    [] x.t = "number"    -> ToDecimal(x.v)
    [] x.t = "bigint"    -> ToDecimal(x.v)
    [] x.t = "boolean"   -> IF x.v THEN <<"t","r","u","e">> ELSE <<"f","a","l","s","e">>
    [] x.t = "null"      -> <<"n","u","l","l">>
    [] x.t = "undefined" -> <<"u","n","d","e","f","i","n","e","d">>
    [] x.t = "response"  -> <<"[","o","b","j","e","c","t"," ","R","e","s","p","o","n","s","e","]">>
    [] x.t = "error"     -> x.v[1] \o (IF x.v[2] = <<>> THEN <<>> ELSE <<":"," ">> \o x.v[2])
    [] OTHER             -> <<"[","o","b","j","e","c","t"," ","O","b","j","e","c","t","]">>

\* the metadata common to the three logEvent calls of withEventLogging
EventBase(args, outcome, durationMs) ==
  << <<<<"e","v","e","n","t","T","y","p","e">>, args.eventType>>,
     <<<<"s","h","o","p","D","o","m","a","i","n">>, args.shopDomain>>,
     <<<<"m","e","r","c","h","a","n","t","I","d">>, args.merchantId>>,
     <<<<"o","u","t","c","o","m","e">>, Str(outcome)>>,
     <<<<"d","u","r","a","t","i","o","n","M","s">>, Num(durationMs)>> >>

SuccessMeta(args, durationMs) == Obj(EventBase(args, <<"s","u","c","c","e","s","s">>, durationMs))

RedirectMeta(args, durationMs, err) ==
  Obj(EventBase(args, <<"s","u","c","c","e","s","s">>, durationMs)
      \o << <<<<"s","t","a","t","u","s">>, Num(err.v)>>, <<<<"r","e","d","i","r","e","c","t">>, Bool(TRUE)>> >>)

\* the failure metadata with err.message read from every thrown value
FailureMeta_messageOnly(args, durationMs, err) ==
  Obj(EventBase(args, <<"f","a","i","l","u","r","e">>, durationMs)
      \o << <<<<"e","r","r","o","r","N","a","m","e">>, Str(IF err.t = "error" THEN err.v[1] ELSE <<"E","r","r","o","r">>)>>,
            <<<<"e","r","r","o","r","M","e","s","s","a","g","e">>, IF err.t = "error" THEN Str(err.v[2]) ELSE Undefined>> >>)

FailureMeta(args, durationMs, err) ==
  Obj(EventBase(args, <<"f","a","i","l","u","r","e">>, durationMs)
      \o << <<<<"e","r","r","o","r","N","a","m","e">>, Str(IF err.t = "error" THEN err.v[1] ELSE <<"E","r","r","o","r">>)>>,
            <<<<"e","r","r","o","r","M","e","s","s","a","g","e">>, Str(IF err.t = "error" THEN err.v[2] ELSE JsString(err))>> >>)

\* the redirect test without 307 and 308
IsRedirectResponse_no30x(err) == err.t = "response" /\ err.v \in {301, 302, 303}

IsRedirectResponse(err) == err.t = "response" /\ err.v \in REDIRECT_STATUSES

Returned(x) == [kind |-> "return", value |-> x]
Thrown(x) == [kind |-> "throw", value |-> x]

\* the catch block without its rethrow
CatchEnd_swallow(err, r) ==
  IF r.threw
    THEN [written |-> <<>>, result |-> Thrown(r.error)]
    ELSE [written |-> <<r>>, result |-> Returned(Undefined)]

\* the catch block once its logEvent call has ended as r
CatchEnd(err, r) ==
  IF r.threw
    THEN [written |-> <<>>, result |-> Thrown(r.error)]
    ELSE [written |-> <<r>>, result |-> Thrown(err)]

\* the catch block rethrowing a redirect without logging it
withEventLoggingCatch_silentRedirect(args, start, err, rid, now) ==
  IF IsRedirectResponse(err)
    THEN [written |-> <<>>, result |-> Thrown(err)]
    ELSE CatchEnd(err, logEvent(args.message, FailureMeta(args, now - start, err), rid, now))

\* the catch block of withEventLogging, entered with err
withEventLoggingCatch(args, start, err, rid, now) ==
  CatchEnd(err,
    logEvent(args.message,
             IF IsRedirectResponse(err)
               THEN RedirectMeta(args, now - start, err)
               ELSE FailureMeta(args, now - start, err),
             rid, now))

\* the try block once its logEvent call has ended as r (the call stands
\* inside the try block, so an error it throws enters the catch block)
TryEnd(args, start, settled, rid, now, r) ==
  IF r.threw
    THEN withEventLoggingCatch(args, start, r.error, rid, now)
    ELSE [written |-> <<r>>, result |-> Returned(settled.value)]

\* what withEventLogging does once `await args.run()` has settled with
\* `settled`: the console lines it writes and how its own promise settles
withEventLogging(args, start, settled, rid, now) ==
  IF settled.kind = "return"
    THEN TryEnd(args, start, settled, rid, now,
                logEvent(args.message, SuccessMeta(args, now - start), rid, now))
    ELSE withEventLoggingCatch(args, start, settled.value, rid, now)

\* ------------------------------------------------------------------------
\* State
\* ------------------------------------------------------------------------

VARIABLES
  scrubCall,   \* the string function under test and its argument
  scrubRet,    \* what it returned
  console,     \* the console calls since the spies were last cleared
  clock,       \* Date.now()
  logCall,     \* the logger call under test: function, arguments, active request id
  logRet,      \* how each call of it ended: returned or threw
  wel,         \* the withEventLogging invocation under test
  store,       \* als.getStore()?.requestId of the code that is executing
  stack,       \* the async functions on the JavaScript call stack, innermost last
  tasks,       \* the async functions started by runWithRequestId
  obs,         \* the last thing a caller observed
  globalFetch, \* globalThis.fetch: how many wrappers stand before the original
  restoreFetchPatch, \* the module variable: the current disable handle, or 0
  handles,     \* the disable functions handed out: the originalFetch each one holds
  runtimePatched, \* entry.server's module flag
  hook,        \* the app-uninstalled webhook action under way
  san,         \* a run of sanitizeMeta over a structure that may refer to itself
  ssr,         \* entry.server's handleRequest under way
  route,       \* a route loader wrapped in withRequestId under way
  reg          \* Shopify's webhook subscriptions, the MerchantWebhook rows, and the
               \* invocations of ensureUninstallWebhookRegistration under way

scrubVars == <<scrubCall, scrubRet>>
logVars == <<logCall, logRet>>
envVars == <<console, clock>>
welVars == <<wel>>
ctxVars == <<store, stack, tasks, obs>>
patchVars == <<globalFetch, restoreFetchPatch, handles, runtimePatched>>
hookVars == <<hook>>
lateVars == <<san, ssr, route, reg>>
vars == <<scrubCall, scrubRet, console, clock, logCall, logRet, wel,
          store, stack, tasks, obs,
          globalFetch, restoreFetchPatch, handles, runtimePatched, hook,
          san, ssr, route, reg>>

NoCall == [fn |-> "none"]
WelIdle == [pc |-> "idle"]

ScrubIdle == scrubCall = NoCall /\ scrubRet = <<>>
LogIdle == logCall = NoCall /\ logRet = <<>>
EnvIdle == console = <<>> /\ clock = 0
NoTask == [st |-> "free"]
NoObs == [kind |-> "none"]
HookIdle == [pc |-> "idle"]
SanIdle == [pc |-> "idle"]
SsrIdle == [pc |-> "idle"]
RouteIdle == [pc |-> "idle"]
RegIdle == [subscriptions |-> <<>>, rows |-> {}, procs |-> <<>>, nextId |-> 0]
LateIdle == san = SanIdle /\ ssr = SsrIdle /\ route = RouteIdle /\ reg = RegIdle
CtxIdle ==
  /\ store = [t |-> "undefined", v |-> 0]
  /\ stack = <<>>
  /\ tasks = <<>>
  /\ obs = NoObs
PatchIdle ==
  /\ globalFetch = 0
  /\ restoreFetchPatch = 0
  /\ handles = <<>>
  /\ runtimePatched = FALSE

\* ------------------------------------------------------------------------
\* Bounds and inputs
\* ------------------------------------------------------------------------

MaxTokenBody == 2
MaxSuspend == 2
MaxClock == 2
MaxNest == 7

Take(s, n) == SubSeq(s, 1, n)
Repeat(c, n) == [i \in 1..n |-> c]

TokenPre == {<<>>, <<"B","e","a","r","e","r"," ">>, <<"t","o","k","e","n","=">>, <<"k","e","y"," ">>, <<"c","o","d","e","=">>, <<"x","@","y",".","i","o"," ">>}
TokenPrefixForms == ShopifyPrefixes \cup {<<"S","H","P","A","T","_">>}
TokenPost == {<<>>, <<"&","x","=","1">>, <<" ","e","n","d">>}

\* strings that hold a platform access-token prefix
TokenStrings ==
  {pre \o pf \o Take(<<"1","a","2","b","3","c">>, n) \o post :
     pre \in TokenPre, pf \in TokenPrefixForms, n \in 0..MaxTokenBody, post \in TokenPost}

UuidFill == {"1", "a", "F"}
UuidOf(a, b, c, d, e) ==
  Repeat(a, 8) \o <<"-">> \o Repeat(b, 4) \o <<"-">> \o Repeat(c, 4) \o <<"-">>
  \o Repeat(d, 4) \o <<"-">> \o Repeat(e, 12)

WEBHOOK_ID == <<"2","f","e","b","2","1","c","a","-","d","5","8","3","-","4","d","9","6","-","8","8","8","c","-","e","0","a","f","9","1","f","6","4","3","0","5">>

\* canonical UUIDs
UuidStrings ==
  {UuidOf(a, b, c, d, e) : a \in UuidFill, b \in UuidFill, c \in UuidFill, d \in UuidFill, e \in UuidFill}
  \cup {WEBHOOK_ID, <<"2","f","e","b","2","1","c","a","-","d","5","8","3","-","4","d","9","6","-","8","8","8","c","-","1","2","3","4","5","6","7","8","9","0","1","2">>}

SHOP_DOMAIN == <<"a","s","t","r","a","-","c","h","a","t","-","d","e","v",".","m","y","s","h","o","p","i","f","y",".","c","o","m">>

\* other shapes the scrubbers tell apart
OtherStrings ==
  {<<>>, <<"t","e","s","t">>, <<"h","u","n","t","e","r","2">>, SHOP_DOMAIN, <<"e","m","b","e","d","d","e","d",".","a","u","t","h",".","s","t","a","r","t">>, <<"a","a","a",".","b","b","b",".","c","c","c">>,
   <<"e","y","J","h","b","G","c","i","O","i","J","I",".","e","y","J","z","d","W","I","i","O","i","I","x",".","S","f","l","K","x","w","R","J","S","M","e","K","K","F","2","Q","T","4">>, <<"B","e","a","r","e","r"," ","a","b","c",".","d","e","f",".","g","h","i">>,
   <<"t","e","s","t","@","e","x","a","m","p","l","e",".","c","o","m">>, <<"+","1","-","5","5","5","-","1","2","3","-","4","5","6","7">>, Repeat("a", 40), Repeat("a", 31),
   <<"f","a","i","l","e","d"," ","w","i","t","h"," ","c","o","d","e","=","a","b","c","d","1","2","3","4","&","h","m","a","c","=","f","f","f","f","&","s","t","a","t","e","=","z","z","z","z"," ","t","o","k","e","n","=","s","h","p","a","t","_","1","2","3">>,
   <<"a","u","t","h","o","r","i","z","a","t","i","o","n",":"," ","B","a","s","i","c"," ","a","b","c",","," ","n","e","x","t">>, <<"r","e","f","r","e","s","h","_","t","o","k","e","n",":"," ","r","1"," ","a","c","c","e","s","s","-","t","o","k","e","n","=","a","1">>,
   REDACTED, OMITTED_MARK, TRUNCATED_MARK, BEARER_REDACTED}

ScrubInputs == TokenStrings \cup UuidStrings \cup OtherStrings

\* ------------------------------------------------------------------------
\* The string functions, called one at a time
\* ------------------------------------------------------------------------

\* redact.server.ts redactString(s)
CallRedactString(s) ==
  /\ scrubCall = NoCall
  /\ scrubCall' = [fn |-> "redactString", arg |-> s]
  /\ scrubRet' = redactString(s)
  /\ UNCHANGED <<lateVars, hookVars, ctxVars, patchVars, logVars, envVars, welVars>>

\* logger.server.ts sanitizeValue(s)
CallSanitizeValue(s) ==
  /\ scrubCall = NoCall
  /\ scrubCall' = [fn |-> "sanitizeValue", arg |-> s]
  /\ scrubRet' = sanitizeValue_logger(Str(s)).v
  /\ UNCHANGED <<lateVars, hookVars, ctxVars, patchVars, logVars, envVars, welVars>>

ScrubReturn ==
  /\ scrubCall # NoCall
  /\ scrubCall' = NoCall
  /\ scrubRet' = <<>>
  /\ UNCHANGED <<lateVars, hookVars, ctxVars, patchVars, logVars, envVars, welVars>>

ScrubInit == ScrubIdle /\ LogIdle /\ EnvIdle /\ wel = WelIdle /\ CtxIdle /\ PatchIdle /\ hook = HookIdle /\ LateIdle

ScrubNext ==
  \/ \E s \in ScrubInputs : CallRedactString(s)
  \/ \E s \in ScrubInputs : CallSanitizeValue(s)
  \/ ScrubReturn

SpecScrub == ScrubInit /\ [][ScrubNext]_vars

\* ------------------------------------------------------------------------
\* withEventLogging, one invocation at a time
\* ------------------------------------------------------------------------

WelArgs ==
  {[eventType |-> Str(<<"o","a","u","t","h","_","s","t","a","r","t">>), message |-> Str(<<"O","A","u","t","h"," ","s","t","a","r","t">>),
    shopDomain |-> Undefined, merchantId |-> Undefined],
   [eventType |-> Str(<<"o","a","u","t","h","_","c","a","l","l","b","a","c","k">>), message |-> Str(<<"O","A","u","t","h"," ","c","a","l","l","b","a","c","k"," ","p","r","o","c","e","s","s","e","d">>),
    shopDomain |-> Str(SHOP_DOMAIN), merchantId |-> Undefined],
   [eventType |-> Str(<<"w","e","b","h","o","o","k","_","u","n","i","n","s","t","a","l","l">>), message |-> Str(<<"W","e","b","h","o","o","k"," ","p","r","o","c","e","s","s","e","d">>),
    shopDomain |-> Str(SHOP_DOMAIN), merchantId |-> Null],
   [eventType |-> Str(<<"s","e","s","s","i","o","n","_","e","x","c","h","a","n","g","e">>), message |-> Str(<<"e","m","b","e","d","d","e","d",".","a","u","t","h",".","s","t","a","r","t">>),
    shopDomain |-> Str(SHOP_DOMAIN), merchantId |-> Str(<<"m","e","r","c","h","a","n","t","-","1">>)]}

\* what run() may resolve with
RunValues == {Undefined, Num(1), Obj(<< <<<<"s","e","s","s","i","o","n">>, Str(<<"o","f","f","l","i","n","e","_","s","h","o","p">>)>> >>)}

\* what run() may throw
RunErrors ==
  {ResponseV(st) : st \in REDIRECT_STATUSES \cup {200, 300, 304, 401, 500}}
  \cup {ErrorV(<<"E","r","r","o","r">>, <<"b","o","o","m">>), ErrorV(<<"T","y","p","e","E","r","r","o","r">>, <<"f","e","t","c","h"," ","f","a","i","l","e","d"," ","t","o","k","e","n","=","s","h","p","a","t","_","1">>),
        ErrorV(<<"E","r","r","o","r">>, <<>>)}
  \cup {Str(<<"p","l","a","i","n"," ","f","a","i","l","u","r","e">>), Str(<<>>), Num(0), Null, Undefined, Obj(<<>>)}

RequestIds == {Undefined, Str(<<"r","e","q","-","1">>)}

\* withEventLogging(args) is called: start = Date.now(), then run() starts
WelCall(args, rid) ==
  /\ wel = WelIdle
  /\ console = <<>>
  /\ wel' = [pc |-> "running", args |-> args, rid |-> rid, start |-> clock, suspends |-> 0]
  /\ UNCHANGED <<lateVars, hookVars, ctxVars, patchVars, scrubVars, logVars, envVars>>

\* run() awaits something and is resumed later; time may pass meanwhile
RunSuspend(dt) ==
  /\ wel.pc = "running"
  /\ wel.suspends < MaxSuspend
  /\ clock + dt =< MaxClock
  /\ wel' = [wel EXCEPT !.suspends = @ + 1]
  /\ clock' = clock + dt
  /\ UNCHANGED <<lateVars, hookVars, ctxVars, patchVars, scrubVars, logVars, console>>

\* run()'s promise settles
RunSettle(settled) ==
  /\ wel.pc = "running"
  /\ wel' = [pc |-> "settled", args |-> wel.args, rid |-> wel.rid, start |-> wel.start,
             suspends |-> wel.suspends, settled |-> settled]
  /\ UNCHANGED <<lateVars, hookVars, ctxVars, patchVars, scrubVars, logVars, envVars>>

\* withEventLogging resumes after its await and runs to its end
WelResume ==
  /\ wel.pc = "settled"
  /\ \E r \in {withEventLogging(wel.args, wel.start, wel.settled, wel.rid, clock)} :
       /\ console' = console \o r.written
       /\ wel' = [pc |-> "done", args |-> wel.args, rid |-> wel.rid, start |-> wel.start,
                  suspends |-> wel.suspends, settled |-> wel.settled, result |-> r.result]
  /\ UNCHANGED <<lateVars, hookVars, ctxVars, patchVars, scrubVars, logVars, clock>>

\* the caller has seen the outcome; the spies are cleared for the next invocation
WelReset ==
  /\ wel.pc = "done"
  /\ wel' = WelIdle
  /\ console' = <<>>
  /\ clock' = 0
  /\ UNCHANGED <<lateVars, hookVars, ctxVars, patchVars, scrubVars, logVars>>

EventInit == ScrubIdle /\ LogIdle /\ EnvIdle /\ wel = WelIdle /\ CtxIdle /\ PatchIdle /\ hook = HookIdle /\ LateIdle

EventNext ==
  \/ \E args \in WelArgs, rid \in RequestIds : WelCall(args, rid)
  \/ \E dt \in 0..1 : RunSuspend(dt)
  \/ \E v \in RunValues : RunSettle(Returned(v))
  \/ \E e \in RunErrors : RunSettle(Thrown(e))
  \/ WelResume
  \/ WelReset

SpecEvent == EventInit /\ [][EventNext]_vars


\* ------------------------------------------------------------------------
\* logger, logEvent and redactForLogs, called with one metadata mapping
\* ------------------------------------------------------------------------

LEVELS == {"debug", "info", "warn", "error"}

\* the level a call uses and the request id active around it
LogContexts ==
  {<<"debug", Undefined>>, <<"info", Str(<<"r","e","q","-","1">>)>>, <<"warn", Str(<<"r","e","q","-","1">>)>>,
   <<"error", Undefined>>}

SECRET == <<"h","u","n","t","e","r","2">>

\* keys: sensitive, body/payload, both, redact.server.ts only, allowlisted,
\* plain, and keys holding a line terminator
ProbeKeys ==
  {<<"t","o","k","e","n">>, <<"A","u","t","h","o","r","i","z","a","t","i","o","n">>, <<"c","l","i","e","n","t","S","e","c","r","e","t">>, <<"t","o","k","e","n","P","a","y","l","o","a","d">>, <<"b","o","d","y">>, <<"r","a","w","B","o","d","y">>,
   <<"s","s","n">>, <<"s","h","o","p">>, <<"r","e","q","u","e","s","t","I","d">>, <<"w","e","b","h","o","o","k","I","d">>, <<"e","r","r","o","r","M","e","s","s","a","g","e">>, <<"x","\n","t","o","k","e","n">>, <<"x","\n","b","o","d","y">>}

TwinKeys == {<<"s","h","o","p">>, <<"r","e","q","u","e","s","t","I","d">>, <<"w","e","b","h","o","o","k","I","d">>}

DeepValues == {Str(SECRET), Str(<<"s","h","p","a","t","_","1","a","2","b">>)}

ProbeValues ==
  DeepValues
  \cup {Str(WEBHOOK_ID), Str(<<"B","e","a","r","e","r"," ","a","b","c",".","d","e","f",".","g","h","i">>), Str(<<"a","@","b",".","c","o","1","2","3","4","5","6","7","8","9","0">>),
        Num(7), Undefined, BigIntV(1),
        Obj(<< <<<<"i","n","n","e","r">>, Str(SECRET)>> >>), Arr(<<Str(SECRET)>>)}

\* the value the repeated call stores under the key instead
OtherValue == Obj(<< <<<<"p","a","s","s","w","o","r","d">>, Str(<<"s","w","o","r","d","f","i","s","h">>)>> >>)

NoProbe == [key |-> <<>>]

\* where the entry under test sits: under `key`, holding `val`, in an object
\* `nest` containers deep, after `pad` other entries; `twin` adds the same
\* value under the plain key note
Probes ==
  {[key |-> k, val |-> v, nest |-> 0, pad |-> 0, twin |-> FALSE] :
     k \in ProbeKeys, v \in ProbeValues}
  \cup {[key |-> k, val |-> v, nest |-> n, pad |-> 0, twin |-> FALSE] :
          k \in ProbeKeys, v \in DeepValues, n \in 1..MaxNest}
  \cup {[key |-> k, val |-> Str(SECRET), nest |-> 0, pad |-> EntryCap, twin |-> FALSE] :
          k \in ProbeKeys}
  \cup {[key |-> k, val |-> v, nest |-> n, pad |-> 0, twin |-> TRUE] :
          k \in TwinKeys, v \in DeepValues, n \in 0..MaxNest}

PadEntries(n) == [i \in 1..n |-> <<<<"k">> \o ToDecimal(i), Num(i)>>]

ProbeObject(p) ==
  Obj(PadEntries(p.pad) \o << <<p.key, p.val>> >>
      \o (IF p.twin THEN << <<<<"n","o","t","e">>, p.val>> >> ELSE <<>>))

\* x under n containers: objects under the key ctx, and one-element arrays
RECURSIVE Nest(_, _)
Nest(n, x) ==
  IF n = 0 THEN x
  ELSE IF n >= 2 /\ n % 2 = 0
    THEN Obj(<< <<<<"c","t","x">>, Arr(<<Nest(n - 2, x)>>)>> >>)
    ELSE Obj(<< <<<<"c","t","x">>, Nest(n - 1, x)>> >>)

MetaOf(p) == Nest(p.nest, ProbeObject(p))

EVENT_MESSAGE == <<"W","e","b","h","o","o","k"," ","p","r","o","c","e","s","s","e","d">>

\* calls whose arguments do not have the declared shape
RawCalls ==
  {[message |-> Obj(<< <<<<"m","i","s","s","i","n","g","K","e","y","s">>, Arr(<<Str(<<"S","H","O","P","I","F","Y","_","A","P","I","_","K","E","Y">>)>>)>> >>),
    meta |-> Str(<<"M","i","s","s","i","n","g"," ","r","e","q","u","i","r","e","d"," ","c","o","n","f","i","g","u","r","a","t","i","o","n"," ","k","e","y","s">>)],
   [message |-> Str(EVENT_MESSAGE), meta |-> Undefined],
   [message |-> Str(EVENT_MESSAGE), meta |-> Null],
   [message |-> Undefined, meta |-> Undefined]}

\* what one call does at time now: the console lines it writes and how it ends
Perform(c, now) ==
  IF c.fn = "redactForLogs"
    THEN [written |-> <<>>, outcome |-> Returned(redactForLogs(c.meta))]
  ELSE EmitOutcome(IF c.fn = "logEvent"
                     THEN logEvent(c.message, c.meta, c.rid, now)
                     ELSE emit(c.level, c.message, c.meta, c.rid, now))

\* the call c is made and runs to its end
Run(c) ==
  /\ \E r \in {Perform(c, clock)} :
       /\ console' = console \o r.written
       /\ logRet' = Append(logRet, r.outcome)
  /\ logCall' = c
  /\ UNCHANGED <<lateVars, hookVars, ctxVars, patchVars, scrubVars, welVars, clock>>

\* logger.debug / info / warn / error (message, meta)
LoggerCall(level, rid, message, meta, probe) ==
  /\ logCall = NoCall
  /\ Run([fn |-> "logger", level |-> level, rid |-> rid,
          message |-> message, meta |-> meta, probe |-> probe])

\* logEvent(message, meta)
LogEventCall(rid, message, meta, probe) ==
  /\ logCall = NoCall
  /\ Run([fn |-> "logEvent", level |-> "info", rid |-> rid,
          message |-> message, meta |-> meta, probe |-> probe])

\* redact.server.ts redactForLogs(meta)
RedactForLogsCall(meta, probe) ==
  /\ logCall = NoCall
  /\ Run([fn |-> "redactForLogs", level |-> "info", rid |-> Undefined,
          message |-> Str(<<>>), meta |-> meta, probe |-> probe])

\* the same call once more, with another value under the key
CallAgain(v) ==
  /\ logCall # NoCall
  /\ logCall.probe # NoProbe
  /\ ~logCall.probe.twin
  /\ Len(logRet) = 1
  /\ Run([logCall EXCEPT !.meta = MetaOf([logCall.probe EXCEPT !.val = v])])

\* redactForLogs is applied to what it returned
RedactAgain ==
  /\ logCall # NoCall
  /\ logCall.fn = "redactForLogs"
  /\ Len(logRet) = 1
  /\ Run([logCall EXCEPT !.meta = logRet[1].value])

\* time passes between the two calls
LogTick ==
  /\ logCall # NoCall
  /\ Len(logRet) = 1
  /\ clock < MaxClock
  /\ clock' = clock + 1
  /\ UNCHANGED <<lateVars, hookVars, ctxVars, patchVars, scrubVars, welVars, logVars, console>>

\* mockClear(): the spies are cleared for the next call
LogClear ==
  /\ logCall # NoCall
  /\ logCall' = NoCall
  /\ logRet' = <<>>
  /\ console' = <<>>
  /\ clock' = 0
  /\ UNCHANGED <<lateVars, hookVars, ctxVars, patchVars, scrubVars, welVars>>

LogInit == ScrubIdle /\ LogIdle /\ EnvIdle /\ wel = WelIdle /\ CtxIdle /\ PatchIdle /\ hook = HookIdle /\ LateIdle

LogNext ==
  \/ \E ctx \in LogContexts, p \in Probes :
       LoggerCall(ctx[1], ctx[2], Str(EVENT_MESSAGE), MetaOf(p), p)
  \/ \E level \in LEVELS, rid \in RequestIds, c \in RawCalls :
       LoggerCall(level, rid, c.message, c.meta, NoProbe)
  \/ \E rid \in RequestIds, p \in Probes :
       LogEventCall(rid, Str(EVENT_MESSAGE), MetaOf(p), p)
  \/ \E p \in Probes : RedactForLogsCall(MetaOf(p), p)
  \/ CallAgain(OtherValue)
  \/ RedactAgain
  \/ LogTick
  \/ LogClear

SpecLog == LogInit /\ [][LogNext]_vars

\* ------------------------------------------------------------------------
\* Properties of withEventLogging (SpecEvent)
\* ------------------------------------------------------------------------

\* the invocation has ended and its caller has its outcome
WelDone == wel # WelIdle /\ wel.pc = "done"

\* run() threw a Response with one of the five redirect statuses
ThrewRedirect ==
  /\ WelDone
  /\ wel.settled.kind = "throw"
  /\ wel.settled.value.t = "response"
  /\ wel.settled.value.v \in {301, 302, 303, 307, 308}

\* run() threw anything else
ThrewOther == WelDone /\ wel.settled.kind = "throw" /\ ~ThrewRedirect

\* the single event line, as JSON.parse reads it back
EventLine == console[1].line

\* what the failure event can take from the thrown value: err.message or String(err)
ThrownText ==
  IF wel.settled.value.t = "error" THEN wel.settled.value.v[2] ELSE JsString(wel.settled.value)

\* C1: every invocation of withEventLogging whose run() has completed (returned,
\* thrown a redirect, thrown anything else) has written exactly one event line,
\* and none before run() completed, however often run() suspended.
C1_ExactlyOneEvent ==
  /\ WelDone => Len(console) = 1
  /\ (wel # WelIdle /\ wel.pc \in {"running", "settled"}) => Len(console) = 0

C1_Witness ==
  WelDone /\ wel.suspends >= 2 /\ wel.settled.kind = "throw" /\ Len(console) = 1

\* C2: the caller sees what run() did: the value it resolved with, or the very
\* value it threw, rethrown.
C2_OutcomePreserved == WelDone => wel.result = wel.settled

C2_Witness ==
  WelDone /\ wel.settled = Thrown(ErrorV(<<"E","r","r","o","r">>, <<"b","o","o","m">>)) /\ wel.result = wel.settled

\* C3: a thrown Response with status 301, 302, 303, 307 or 308 gives one event
\* with outcome success, redirect true and that status, written at info level,
\* and the same Response is thrown on.
C3_RedirectIsSuccess ==
  ThrewRedirect =>
    /\ Len(console) = 1
    /\ console[1].method = "log"
    /\ Get(EventLine, <<"l","e","v","e","l">>) = Str(<<"I","N","F","O">>)
    /\ Get(EventLine, <<"o","u","t","c","o","m","e">>) = Str(<<"s","u","c","c","e","s","s">>)
    /\ Get(EventLine, <<"r","e","d","i","r","e","c","t">>) = Bool(TRUE)
    /\ Get(EventLine, <<"s","t","a","t","u","s">>) = Num(wel.settled.value.v)
    /\ wel.result = Thrown(wel.settled.value)

C3_Witness ==
  ThrewRedirect /\ wel.settled.value.v = 308 /\ Get(EventLine, <<"r","e","d","i","r","e","c","t">>) = Bool(TRUE)

\* C4 as stated: any other thrown value gives one event with outcome failure,
\* an errorName and a non-empty errorMessage.
C4_NonEmptyErrorMessage ==
  ThrewOther =>
    /\ Len(console) = 1
    /\ Get(EventLine, <<"o","u","t","c","o","m","e">>) = Str(<<"f","a","i","l","u","r","e">>)
    /\ Get(EventLine, <<"e","r","r","o","r","N","a","m","e">>).t = "string"
    /\ Get(EventLine, <<"e","r","r","o","r","M","e","s","s","a","g","e">>).t = "string"
    /\ Get(EventLine, <<"e","r","r","o","r","M","e","s","s","a","g","e">>).v # <<>>

\* C4 as amended: any other thrown value gives one event at error level with
\* outcome failure, errorName the Error's name (or "Error"), and errorMessage a
\* string holding no platform token prefix, which is empty only if err.message
\* (String(err) for a value that is no Error) is empty.
C4_FailureEvent ==
  ThrewOther =>
    /\ Len(console) = 1
    /\ console[1].method = "error"
    /\ Get(EventLine, <<"o","u","t","c","o","m","e">>) = Str(<<"f","a","i","l","u","r","e">>)
    /\ Get(EventLine, <<"e","r","r","o","r","N","a","m","e">>) =
         Str(IF wel.settled.value.t = "error" THEN wel.settled.value.v[1] ELSE <<"E","r","r","o","r">>)
    /\ Get(EventLine, <<"e","r","r","o","r","M","e","s","s","a","g","e">>).t = "string"
    /\ (Get(EventLine, <<"e","r","r","o","r","M","e","s","s","a","g","e">>).v = <<>>) <=> (ThrownText = <<>>)
    /\ \A p \in ShopifyPrefixes : ~Includes(Get(EventLine, <<"e","r","r","o","r","M","e","s","s","a","g","e">>).v, p)

C4_Witness ==
  /\ ThrewOther
  /\ wel.settled.value = Num(0)
  /\ Get(EventLine, <<"e","r","r","o","r","M","e","s","s","a","g","e">>) = Str(<<"0">>)

\* ------------------------------------------------------------------------
\* Properties of the value scrubbers (SpecScrub)
\* ------------------------------------------------------------------------

ScrubDone == scrubCall # NoCall

\* the argument holds one of the platform access-token prefixes
HoldsTokenPrefix(s) == \E p \in ShopifyPrefixes : Includes(s, p)

\* the argument names a credential before its value: Bearer, or a key of a
\* key=value pair
NamesCredential(s) ==
  \E kw \in {<<"b","e","a","r","e","r">>, <<"a","u","t","h","o","r","i","z","a","t","i","o","n">>, <<"t","o","k","e","n">>, <<"h","m","a","c">>, <<"c","o","d","e","=">>, <<"s","t","a","t","e","=">>} :
     Includes(s, kw)

\* 8-4-4-4-12 groups of hex digits
CanonicalUuid(s) ==
  /\ Len(s) = 36
  /\ \A j \in 1..36 :
       IF j \in {9, 14, 19, 24} THEN s[j] = "-"
       ELSE s[j] \in Digit \cup {"a", "b", "c", "d", "e", "f", "A", "B", "C", "D", "E", "F"}

C9_UuidUnchanged ==
  (ScrubDone /\ CanonicalUuid(scrubCall.arg)) => scrubRet = scrubCall.arg

\* ------------------------------------------------------------------------
\* Properties of the logger and of redactForLogs (SpecLog)
\* ------------------------------------------------------------------------

\* a call with a metadata mapping has been made
ProbeDone == logCall # NoCall /\ logCall.probe # NoProbe

\* the call is a call of the logger (logger.* or logEvent)
LoggerDone == logCall # NoCall /\ logCall.fn \in {"logger", "logEvent"}

AllReturned == \A i \in 1..Len(logRet) : logRet[i].kind = "return"

\* what the i-th call made of the metadata: the parsed line, or the value
\* redactForLogs returned
Output(i) ==
  IF logCall.fn = "redactForLogs" THEN logRet[i].value ELSE console[i].line

\* the object the entry under test sat in, as found in the output x: n
\* containers down, or whatever stands in the way
RECURSIVE ProbeParent(_, _)
ProbeParent(x, n) ==
  IF n = 0 \/ x.t # "object" \/ ~HasKey(x, <<"c","t","x">>) THEN x
  ELSE IF Get(x, <<"c","t","x">>).t = "array" /\ Get(x, <<"c","t","x">>).v # <<>>
    THEN ProbeParent(Get(x, <<"c","t","x">>).v[1], n - 2)
  ELSE ProbeParent(Get(x, <<"c","t","x">>), n - 1)

\* the entry's object was reached by the sanitizer and is in the output
ProbeKept(i) ==
  /\ ProbeParent(Output(i), logCall.probe.nest).t = "object"
  /\ HasKey(ProbeParent(Output(i), logCall.probe.nest), logCall.probe.key)

\* the value the output holds under the key
ProbeValue(i) == Get(ProbeParent(Output(i), logCall.probe.nest), logCall.probe.key)

\* the strings a value holds
RECURSIVE Leaves(_)
Leaves(x) ==
  CASE x.t = "string" -> {x.v}
    [] x.t = "array"  -> UNION {Leaves(x.v[i]) : i \in 1..Len(x.v)}
    [] x.t = "object" -> UNION {Leaves(x.v[i][2]) : i \in 1..Len(x.v)}
    [] OTHER          -> {}

\* the string s stands somewhere in x, in a key or in a value
RECURSIVE Mentions(_, _)
Mentions(x, s) ==
  CASE x.t = "string" -> Contains(x.v, s)
    [] x.t = "array"  -> \E i \in 1..Len(x.v) : Mentions(x.v[i], s)
    [] x.t = "object" ->
         \E i \in 1..Len(x.v) : Contains(x.v[i][1], s) \/ Mentions(x.v[i][2], s)
    [] OTHER          -> FALSE

\* the original value of the entry under test is still readable in the output
ProbeLeaks(i) == \E s \in Leaves(logCall.probe.val) : Mentions(Output(i), s)

\* the key holds one of the words of the sensitive-key pattern, in any case
KeyIsSensitive == \E a \in SensitiveCommon : Includes(logCall.probe.key, a)

\* the key holds payload, rawbody, requestbody or body, in any case
KeyIsBody == \E a \in BodyAlternatives : Includes(logCall.probe.key, a)

\* the entry is within the caps: its object at most 6 containers deep, and
\* itself among the first 100 entries
WithinCaps == logCall.probe.nest =< MaxDepth /\ logCall.probe.pad < EntryCap

\* the record without its timestamp
SansTimestamp(x) ==
  IF x.t = "object" THEN Obj(SelectSeq(x.v, LAMBDA e : e[1] # <<"t","i","m","e","s","t","a","m","p">>)) ELSE x

\* C5: a call of logger.* or logEvent never throws and always writes a line.
C5_LoggerNeverThrows ==
  LoggerDone => (AllReturned /\ Len(console) = Len(logRet))

\* C6: under a key that holds a word of the sensitive-key pattern, the entry's
\* original value is nowhere in the output, and where the entry is in the output
\* its value is the marker "[REDACTED]" (read with what the spec grants
\* elsewhere: "[OMITTED]" under a key that is a body/payload key as well, and
\* entries cut by the depth and entry caps).
C6_SensitiveNeverLogged ==
  (ProbeDone /\ KeyIsSensitive /\ AllReturned) =>
    /\ ~ProbeLeaks(1)
    /\ ProbeKept(1) => ProbeValue(1) \in {Str(REDACTED), Str(OMITTED_MARK)}

\* C7: under a key that holds payload, rawbody, requestbody or body (also one
\* that is a sensitive key as well) the output does not depend on the value:
\* the entry, where the sanitizer reaches it, holds "[OMITTED]", and two calls
\* that differ only in that value give the same record, timestamp aside.
C7_BodyValueNeverMatters ==
  (ProbeDone /\ KeyIsBody /\ AllReturned) =>
    /\ \A i \in 1..Len(logRet) :
         /\ ~ProbeLeaks(i)
         /\ WithinCaps => (ProbeKept(i) /\ ProbeValue(i) = Str(OMITTED_MARK))
    /\ Len(logRet) = 2 => SansTimestamp(Output(1)) = SansTimestamp(Output(2))

C11_RedactIdempotent ==
  (logCall # NoCall /\ logCall.fn = "redactForLogs" /\ Len(logRet) = 2
     /\ logCall.meta = logRet[1].value) =>
    logRet[2].value = logRet[1].value

\* the correlation id the record is to carry: the active one, or the fallback
ActiveOrFallbackId ==
  IF logCall.rid = Undefined THEN Str(<<"m","i","s","s","i","n","g","-","r","e","q","u","e","s","t","-","i","d">>) ELSE logCall.rid

\* the caller's metadata has a top-level entry requestId of its own, among the
\* first EntryCap entries (the ones the sanitizer keeps)
MetaKeepsRequestId ==
  /\ logCall.meta.t = "object"
  /\ \E i \in 1..EntryCap :
       i <= Len(logCall.meta.v) /\ logCall.meta.v[i][1] = <<"r","e","q","u","e","s","t","I","d">>

\* C12 as stated: every record's requestId is the active correlation id, or
\* "missing-request-id" when none is active, whatever the metadata.
C12_RequestIdIsActiveId ==
  (LoggerDone /\ AllReturned) =>
    \A i \in 1..Len(console) : Get(console[i].line, <<"r","e","q","u","e","s","t","I","d">>) = ActiveOrFallbackId

\* C12 as amended: the record's requestId is the active correlation id, or
\* "missing-request-id" when none is active, unless the metadata has a
\* top-level requestId entry of its own among its first 100 entries: then the
\* record carries that entry's sanitized value instead, and no requestId when
\* the value is undefined.
C12_RequestIdUnlessSupplied ==
  (LoggerDone /\ AllReturned) =>
    /\ ~MetaKeepsRequestId =>
         \A i \in 1..Len(console) : Get(console[i].line, <<"r","e","q","u","e","s","t","I","d">>) = ActiveOrFallbackId
    /\ (MetaKeepsRequestId /\ Get(logCall.meta, <<"r","e","q","u","e","s","t","I","d">>) \in {Str(SECRET), Null}) =>
         Get(console[Len(console)].line, <<"r","e","q","u","e","s","t","I","d">>) = Get(logCall.meta, <<"r","e","q","u","e","s","t","I","d">>)
    /\ (MetaKeepsRequestId /\ Get(logCall.meta, <<"r","e","q","u","e","s","t","I","d">>) = Undefined) =>
         ~HasKey(console[Len(console)].line, <<"r","e","q","u","e","s","t","I","d">>)

C12_Witness ==
  /\ LoggerDone
  /\ logCall.rid = Str(<<"r","e","q","-","1">>)
  /\ Get(logCall.meta, <<"r","e","q","u","e","s","t","I","d">>) = Str(SECRET)
  /\ Get(console[1].line, <<"r","e","q","u","e","s","t","I","d">>) = Str(SECRET)

\* ------------------------------------------------------------------------
\* request-id.server.ts: inbound ids
\* ------------------------------------------------------------------------

REQUEST_ID_HEADER == <<"X","-","R","e","q","u","e","s","t","-","I","d">>
REQUEST_ID_ALIAS_HEADER == <<"X","-","C","o","r","r","e","l","a","t","i","o","n","-","I","d">>

\* String.prototype.trim
trim(s) ==
  LET keep == {i \in 1..Len(s) : s[i] \notin Whitespace}
  IN  IF keep = {} THEN <<>> ELSE SubSeq(s, SetMin(keep), SetMax(keep))

\* the values of the entries idx of the header list h, joined by ", "
RECURSIVE JoinValues(_, _)
JoinValues(h, idx) ==
  IF Cardinality(idx) = 1
    THEN trim(h[SetMin(idx)][2])
    ELSE trim(h[SetMin(idx)][2]) \o <<","," ">> \o JoinValues(h, idx \ {SetMin(idx)})

\* Headers.get(name): names compare case-insensitively, null when absent
HeadersGet(h, name) ==
  LET idx == {i \in 1..Len(h) : toLowerCase(h[i][1]) = toLowerCase(name)}
  IN  IF idx = {} THEN Null ELSE Str(JoinValues(h, idx))

\* Headers.has(name)
HeadersHas(h, name) == HeadersGet(h, name) # Null

\* Headers.set(name, value): replaces the entries of that name
HeadersSet(h, name, value) ==
  SelectSeq(h, LAMBDA e : toLowerCase(e[1]) # toLowerCase(name))
    \o << <<toLowerCase(name), value>> >>

\* new Headers(init): names are lower-cased, values trimmed
NewHeaders(h) == [i \in 1..Len(h) |-> <<toLowerCase(h[i][1]), trim(h[i][2])>>]

\* [A-Za-z0-9._-]
RequestIdChar == Letter \cup Digit \cup {".", "_", "-"}

RequestIdCap == 128

\* if (v.startsWith("{") && v.endsWith("}") && v.length > 2) v = v.slice(1, -1).trim()
StripBraces(v) ==
  IF v[1] = "{" /\ v[Len(v)] = "}" /\ Len(v) > 2
    THEN trim(SubSeq(v, 2, Len(v) - 1))
    ELSE v

\* the character test alone, without the length cap
AcceptRequestId_noCap(v) ==
  IF v = <<>> \/ \E i \in 1..Len(v) : v[i] \notin RequestIdChar THEN Undefined
  ELSE Str(v)

\* the length cap and /^[A-Za-z0-9._-]+$/
AcceptRequestId(v) ==
  IF Len(v) > RequestIdCap THEN Undefined
  ELSE IF v = <<>> \/ \E i \in 1..Len(v) : v[i] \notin RequestIdChar THEN Undefined
  ELSE Str(v)

sanitizeInboundRequestId(raw) ==
  IF raw = Null \/ raw.v = <<>> THEN Undefined
  ELSE IF trim(raw.v) = <<>> THEN Undefined
  ELSE AcceptRequestId(StripBraces(trim(raw.v)))

\* a ?? b
Coalesce(a, b) == IF IsNullish(a) THEN b ELSE a

\* the alias is read only when the primary header is not there at all
getOrCreateRequestId_absentOnly(headers, uuid) ==
  Coalesce(IF HeadersHas(headers, REQUEST_ID_HEADER)
             THEN sanitizeInboundRequestId(HeadersGet(headers, REQUEST_ID_HEADER))
             ELSE sanitizeInboundRequestId(HeadersGet(headers, REQUEST_ID_ALIAS_HEADER)),
           Str(uuid))

\* getOrCreateRequestId(headers), uuid being what randomUUID() returns if called
getOrCreateRequestId(headers, uuid) ==
  Coalesce(Coalesce(sanitizeInboundRequestId(HeadersGet(headers, REQUEST_ID_HEADER)),
                    sanitizeInboundRequestId(HeadersGet(headers, REQUEST_ID_ALIAS_HEADER))),
           Str(uuid))

\* the header is written only where the response has none yet
setRequestIdHeader_ifAbsent(headers, requestId) ==
  IF HeadersHas(headers, REQUEST_ID_HEADER) THEN headers
  ELSE HeadersSet(headers, REQUEST_ID_HEADER, requestId)

\* setRequestIdHeader(headers, requestId)
setRequestIdHeader(headers, requestId) == HeadersSet(headers, REQUEST_ID_HEADER, requestId)

\* ------------------------------------------------------------------------
\* request-id.server.ts: the fetch patch
\* ------------------------------------------------------------------------

\* a Request object, a RequestInit
RequestV(url, method, headers) ==
  [t |-> "request", url |-> url, method |-> method, headers |-> NewHeaders(headers)]
InitV(method, headers) == [t |-> "init", method |-> method, headers |-> headers]
HeadersInit(h) == [t |-> "headers", v |-> h]
NoHeaders == [t |-> "undefined", v |-> 0]

\* new Request(input, init) for an input that is a URL string or a Request
NewRequest(input, init) ==
  [t |-> "request",
   url |-> IF input.t = "request" THEN input.url ELSE input.v,
   method |-> IF init # Undefined /\ init.method # Undefined THEN init.method
              ELSE IF input.t = "request" THEN input.method ELSE Str(<<"G","E","T">>),
   headers |-> IF init # Undefined /\ init.headers # NoHeaders THEN NewHeaders(init.headers.v)
               ELSE IF input.t = "request" THEN input.headers ELSE <<>>]

\* { ...init, headers }
InitWithHeaders(init, headers) ==
  [t |-> "init", method |-> IF init = Undefined THEN Undefined ELSE init.method,
   headers |-> HeadersInit(headers)]

\* const headers = new Headers(baseRequest.headers); set X-Request-Id when absent
MergedHeaders(baseRequest, rid) ==
  IF HeadersHas(baseRequest.headers, REQUEST_ID_HEADER)
    THEN baseRequest.headers
    ELSE HeadersSet(baseRequest.headers, REQUEST_ID_HEADER, rid.v)

\* new Request(baseRequest, { ...init, headers })
NextRequest(baseRequest, init, rid) ==
  NewRequest(baseRequest, InitWithHeaders(init, MergedHeaders(baseRequest, rid)))

\* the arguments the wrapper passes on to originalFetch
WrapperArgs(rid, input, init) ==
  IF rid = Undefined \/ rid.v = <<>>
    THEN [input |-> input, init |-> init]
    ELSE [input |-> NextRequest(IF input.t = "request" THEN input ELSE NewRequest(input, init),
                                init, rid),
          init |-> Undefined]

\* globalThis.fetch(input, init) when depth wrappers stand before the original:
\* the arguments that reach the original fetch, and the wrappers passed
RECURSIVE FetchVia(_, _, _)
FetchVia(depth, rid, args) ==
  IF depth = 0
    THEN [hops |-> 0, input |-> args.input, init |-> args.init]
    ELSE [FetchVia(depth - 1, rid, WrapperArgs(rid, args.input, args.init))
            EXCEPT !.hops = @ + 1]

\* an installer without the early return: it wraps whatever fetch is there
enableFetchRequestIdPropagation_always(gf, rfp, hs) ==
  [handle |-> Len(hs) + 1, globalFetch |-> gf + 1,
   restoreFetchPatch |-> Len(hs) + 1, handles |-> Append(hs, gf)]


\* enableFetchRequestIdPropagation(): the handle returned and the state it leaves
enableFetchRequestIdPropagation(gf, rfp, hs) ==
  IF rfp # 0
    THEN [handle |-> rfp, globalFetch |-> gf, restoreFetchPatch |-> rfp, handles |-> hs]
    ELSE [handle |-> Len(hs) + 1, globalFetch |-> gf + 1,
          restoreFetchPatch |-> Len(hs) + 1, handles |-> Append(hs, gf)]
\* ------------------------------------------------------------------------
\* Requests running inside their correlation context
\* ------------------------------------------------------------------------

MaxTasks == 2
MaxInstalls == 2

\* what randomUUID() may return
RandomUuids ==
  {<<"2","f","e","b","2","1","c","a","-","d","5","8","3","-","4","d","9","6","-","8","8","8","c","-","e","0","a","f","9","1","f","6","4","3","0","5">>, <<"9","b","2","e","4","c","1","a","-","0","f","3","d","-","4","e","6","b","-","a","7","c","8","-","5","d","1","f","2","e","3","a","4","b","6","c">>}

\* the headers of the inbound requests
InboundHeaders ==
  {<<>>,
   << <<<<"x","-","r","e","q","u","e","s","t","-","i","d">>, <<" ","{","r","e","q","-","1","}"," ">>>>, <<<<"X","-","C","o","r","r","e","l","a","t","i","o","n","-","I","d">>, <<"c","o","r","r","-","1">>>> >>,
   << <<<<"X","-","C","o","r","r","e","l","a","t","i","o","n","-","I","d">>, <<"c","o","r","r","-","2">>>> >>}

\* ids passed to runWithRequestId directly
NestedIds == {<<"j","o","b","-","7">>}

\* what fn may return or throw
FnOutcomes == {Returned(Num(1)), Thrown(ErrorV(<<"E","r","r","o","r">>, <<"b","o","o","m">>))}

Top == IF stack = <<>> THEN 0 ELSE stack[Len(stack)]
Pop(s) == SubSeq(s, 1, Len(s) - 1)
IdsInUse == {tasks[i].id : i \in 1..Len(tasks)}

\* als.run(store, fn) on entry: the store fn sees
alsRunEnter(requestId) == Str(requestId)

\* als.run on the synchronous exit of fn forgets the store instead of restoring it
alsRunExit_forget(before) == Undefined

\* als.run on the synchronous exit of fn: the store the caller sees again
alsRunExit(before) == before

\* a module-level variable in place of the AsyncLocalStorage: a continuation
\* finds whatever the variable holds
alsResume_shared(captured, current) == current

\* the store a continuation of an async function runs with
alsResume(captured, current) == captured

\* return als.run({ requestId }, fn): what the caller of runWithRequestId gets
runWithRequestId(outcome) == outcome

\* a step that observes nothing and logs nothing; the spies are cleared before each step
Quiet == obs' = NoObs /\ console' = <<>> /\ clock' = clock

NewTask(requestId, entry) ==
  [st |-> "running", id |-> requestId, entry |-> entry, caller |-> Top,
   before |-> store, exited |-> FALSE, after |-> Undefined, captured |-> Undefined,
   outcome |-> Undefined, delivered |-> Undefined]

\* fn is entered under the id: the task is pushed and the store is set
EnterTask(requestId, entry) ==
  /\ Len(tasks) < MaxTasks
  /\ tasks' = Append(tasks, NewTask(requestId, entry))
  /\ stack' = Append(stack, Len(tasks) + 1)
  /\ store' = alsRunEnter(requestId)
  /\ Quiet

\* withRequestId(request, fn) up to the call of fn: the patch is made sure of,
\* the id is derived and fn is entered under it
EnterRequest(headers, uuid) ==
  /\ stack = <<>>
  /\ uuid \notin IdsInUse
  /\ restoreFetchPatch # 0 \/ Len(handles) < MaxInstalls
  /\ \E p \in {enableFetchRequestIdPropagation(globalFetch, restoreFetchPatch, handles)} :
       /\ globalFetch' = p.globalFetch
       /\ restoreFetchPatch' = p.restoreFetchPatch
       /\ handles' = p.handles
  /\ EnterTask(getOrCreateRequestId(headers, uuid).v, "withRequestId")
  /\ UNCHANGED <<lateVars, scrubVars, logVars, welVars, runtimePatched>>

\* withRequestId(request, fn), called by the framework for an inbound request
WithRequestId(headers, uuid) ==
  /\ EnterRequest(headers, uuid)
  /\ UNCHANGED hookVars

\* runWithRequestId(id, fn), called by code that is running
RunWithRequestId(requestId) ==
  /\ EnterTask(requestId, "runWithRequestId")
  /\ UNCHANGED <<lateVars, hookVars, scrubVars, logVars, welVars, patchVars>>

\* the stack and the store once the innermost function has left the stack:
\* als.run returns to its caller on the first exit, the event loop takes over later
LeaveStack(t) ==
  /\ stack' = Pop(stack)
  /\ store' = IF tasks[t].exited THEN Undefined ELSE alsRunExit(tasks[t].before)

\* the running function leaves the stack at an await, keeping its store
Suspends ==
  /\ Top # 0
  /\ LeaveStack(Top)
  /\ tasks' = [tasks EXCEPT ![Top] =
                 [@ EXCEPT !.st = "suspended", !.captured = store, !.exited = TRUE,
                           !.after = IF tasks[Top].exited THEN tasks[Top].after ELSE store']]

\* the running function awaits: it leaves the stack until it is resumed
Await ==
  /\ Suspends
  /\ Quiet
  /\ UNCHANGED <<lateVars, hookVars, scrubVars, logVars, welVars, patchVars>>

\* a suspended function is put back on the stack, with the store it kept
Resumes(t) ==
  /\ stack = <<>>
  /\ t \in 1..Len(tasks)
  /\ tasks[t].st = "suspended"
  /\ stack' = <<t>>
  /\ store' = alsResume(tasks[t].captured, store)
  /\ tasks' = [tasks EXCEPT ![t].st = "running"]

\* the event loop resumes a suspended function
Resume(t) ==
  /\ Resumes(t)
  /\ Quiet
  /\ UNCHANGED <<lateVars, hookVars, scrubVars, logVars, welVars, patchVars>>

\* the running function ends with the outcome and leaves the stack
Ends(outcome) ==
  /\ Top # 0
  /\ LeaveStack(Top)
  /\ tasks' = [tasks EXCEPT ![Top] =
                 [@ EXCEPT !.st = "done", !.exited = TRUE, !.outcome = outcome,
                           !.delivered = runWithRequestId(outcome),
                           !.after = IF tasks[Top].exited THEN tasks[Top].after ELSE store']]

\* the running function returns or throws
Finish(outcome) ==
  /\ Ends(outcome)
  /\ Quiet
  /\ UNCHANGED <<lateVars, hookVars, scrubVars, logVars, welVars, patchVars>>

\* getRequestId(), called by the code that is running (or by top-level code)
GetRequestId ==
  /\ obs' = [kind |-> "getRequestId", task |-> Top, rid |-> store]
  /\ console' = <<>>
  /\ UNCHANGED <<lateVars, hookVars, scrubVars, logVars, clock, welVars, patchVars, store, stack, tasks>>

\* logger.info(message, meta), the spies being cleared before the call
CtxLoggerCall(level, meta) ==
  /\ \E r \in {EmitOutcome(emit(level, Str(<<"o","k">>), meta, store, clock))} :
       console' = r.written
  /\ obs' = [kind |-> "logger", task |-> Top, rid |-> store]
  /\ UNCHANGED <<lateVars, hookVars, scrubVars, logVars, clock, welVars, patchVars, store, stack, tasks>>

\* fetch(input, init)
Fetch(input, init) ==
  /\ \E r \in {FetchVia(globalFetch, store, [input |-> input, init |-> init])} :
       obs' = [kind |-> "fetch", task |-> Top, rid |-> store,
               input |-> input, init |-> init, hops |-> r.hops,
               passed |-> [input |-> r.input, init |-> r.init],
               sent |-> NewRequest(r.input, r.init)]
  /\ console' = <<>>
  /\ UNCHANGED <<lateVars, hookVars, scrubVars, logVars, clock, welVars, patchVars, store, stack, tasks>>

\* every request has been answered: the next ones arrive
CtxReset ==
  /\ stack = <<>>
  /\ tasks # <<>>
  /\ \A i \in 1..Len(tasks) : tasks[i].st = "done"
  /\ tasks' = <<>>
  /\ Quiet
  /\ UNCHANGED <<lateVars, hookVars, scrubVars, logVars, welVars, patchVars, store, stack>>

API_URL == Str(<<"h","t","t","p","s",":","/","/","s","h","o","p",".","e","x","a","m","p","l","e","/","a","d","m","i","n","/","a","p","i">>)

\* outbound calls that carry no request id of their own
PlainFetches ==
  {[input |-> RequestV(<<"h","t","t","p","s",":","/","/","s","h","o","p",".","e","x","a","m","p","l","e","/","a","d","m","i","n","/","a","p","i">>, Str(<<"P","O","S","T">>),
                       << <<<<"A","c","c","e","p","t">>, <<"a","p","p","l","i","c","a","t","i","o","n","/","j","s","o","n">>>> >>),
    init |-> Undefined]}

CtxMetas == {Undefined}

CtxInit == ScrubIdle /\ LogIdle /\ EnvIdle /\ wel = WelIdle /\ CtxIdle /\ PatchIdle /\ hook = HookIdle /\ LateIdle

CtxNext ==
  \/ \E h \in InboundHeaders, u \in RandomUuids : WithRequestId(h, u)
  \/ \E id \in NestedIds : RunWithRequestId(id)
  \/ Await
  \/ \E t \in 1..MaxTasks : Resume(t)
  \/ \E o \in FnOutcomes : Finish(o)
  \/ GetRequestId
  \/ \E m \in CtxMetas : CtxLoggerCall("info", m)
  \/ \E f \in PlainFetches : Fetch(f.input, f.init)
  \/ CtxReset

SpecCtx == CtxInit /\ [][CtxNext]_vars

\* ------------------------------------------------------------------------
\* The fetch patch: installed, disabled, and called
\* ------------------------------------------------------------------------

\* enableFetchRequestIdPropagation() is called
Enable ==
  /\ restoreFetchPatch # 0 \/ Len(handles) < MaxInstalls
  /\ \E p \in {enableFetchRequestIdPropagation(globalFetch, restoreFetchPatch, handles)} :
       /\ globalFetch' = p.globalFetch
       /\ restoreFetchPatch' = p.restoreFetchPatch
       /\ handles' = p.handles
       /\ obs' = [kind |-> "enable", handle |-> p.handle, current |-> restoreFetchPatch,
                  wrappers |-> globalFetch]
  /\ console' = <<>>
  /\ UNCHANGED <<lateVars, hookVars, scrubVars, logVars, clock, welVars, runtimePatched, store, stack, tasks>>

\* a disable function that was handed out is called:
\* globalThis.fetch = originalFetch; restoreFetchPatch = undefined
Disable(h) ==
  /\ h \in 1..Len(handles)
  /\ globalFetch' = handles[h]
  /\ restoreFetchPatch' = 0
  /\ obs' = [kind |-> "disable", handle |-> h]
  /\ console' = <<>>
  /\ UNCHANGED <<lateVars, hookVars, scrubVars, logVars, clock, welVars, runtimePatched, handles, store, stack, tasks>>

\* entry.server.tsx ensureRuntimePatched()
EnsureRuntimePatched ==
  /\ runtimePatched \/ restoreFetchPatch # 0 \/ Len(handles) < MaxInstalls
  /\ \E p \in {IF runtimePatched
                 THEN [globalFetch |-> globalFetch, restoreFetchPatch |-> restoreFetchPatch,
                       handles |-> handles]
                 ELSE enableFetchRequestIdPropagation(globalFetch, restoreFetchPatch, handles)} :
       /\ globalFetch' = p.globalFetch
       /\ restoreFetchPatch' = p.restoreFetchPatch
       /\ handles' = p.handles
  /\ runtimePatched' = TRUE
  /\ Quiet
  /\ UNCHANGED <<lateVars, hookVars, scrubVars, logVars, welVars, store, stack, tasks>>

CALLER_ID == <<"c","a","l","l","e","r","-","1">>
INIT_ID == <<"c","a","l","l","e","r","-","2">>

FetchInputs ==
  {API_URL,
   RequestV(<<"h","t","t","p","s",":","/","/","s","h","o","p",".","e","x","a","m","p","l","e","/","a","d","m","i","n","/","a","p","i">>, Str(<<"P","O","S","T">>),
            << <<<<"A","c","c","e","p","t">>, <<"a","p","p","l","i","c","a","t","i","o","n","/","j","s","o","n">>>> >>),
   RequestV(<<"h","t","t","p","s",":","/","/","s","h","o","p",".","e","x","a","m","p","l","e","/","a","d","m","i","n","/","a","p","i">>, Str(<<"G","E","T">>),
            << <<<<"X","-","R","e","q","u","e","s","t","-","I","d">>, CALLER_ID>> >>)}

FetchInits ==
  {Undefined,
   InitV(Str(<<"P","O","S","T">>), NoHeaders),
   InitV(Undefined, HeadersInit(<< <<<<"x","-","r","e","q","u","e","s","t","-","i","d">>, INIT_ID>> >>)),
   InitV(Undefined, HeadersInit(<< <<<<"A","u","t","h","o","r","i","z","a","t","i","o","n">>, <<"B","e","a","r","e","r"," ","t">>>> >>))}

FetchNext ==
  \/ Enable
  \/ \E h \in 1..MaxInstalls : Disable(h)
  \/ EnsureRuntimePatched
  \/ \E h \in InboundHeaders, u \in RandomUuids : tasks = <<>> /\ WithRequestId(h, u)
  \/ \E id \in NestedIds \cup {<<>>} : tasks = <<>> /\ RunWithRequestId(id)
  \/ \E o \in FnOutcomes : Finish(o)
  \/ \E input \in FetchInputs, init \in FetchInits : Fetch(input, init)
  \/ CtxReset

SpecFetch == CtxInit /\ [][FetchNext]_vars

\* ------------------------------------------------------------------------
\* getOrCreateRequestId on the headers of inbound requests
\* ------------------------------------------------------------------------

\* values of X-Request-Id as they are sent
PrimaryValues ==
  {<<"r","e","q","-","1">>, <<"x">>, <<"A",".","b","_","c","-","9">>, <<"0","0","-","4","b","f","9","2","f","3","5","-","0","1">>, WEBHOOK_ID,
   Repeat("a", RequestIdCap), Repeat("a", RequestIdCap + 1),
   <<"{">> \o Repeat("a", RequestIdCap - 1) \o <<"}">>,
   <<"{">> \o Repeat("a", RequestIdCap + 1) \o <<"}">>,
   <<"{">> \o WEBHOOK_ID \o <<"}">>,
   <<" ","r","e","q","-","1"," ">>, <<"{"," ","r","e","q","-","1"," ","}">>, <<"{","{","r","e","q","-","1","}","}">>, <<"{","a","}">>, <<"{","}">>, <<"{"," ","}">>, <<"{">>, <<>>, <<" "," "," ">>,
   <<"b","a","d"," ","i","d">>, <<"i","d","!">>, <<"r","e","q","/","1">>, <<"r","\\","u","0","0","e","9","q">>}

\* values of X-Correlation-Id as they are sent
AliasValues == {<<"c","o","r","r","-","1">>, <<"{","c","o","r","r","-","2","}">>, <<"b","a","d"," ","a","l","i","a","s">>, Repeat("b", RequestIdCap + 1)}

Entry(name, values) == [i \in 1..Len(values) |-> <<name, values[i]>>]

\* header lists: each name absent, present once, or (the primary) present twice
DeriveHeaders ==
  {Entry(pn, p) \o Entry(<<"X","-","C","o","r","r","e","l","a","t","i","o","n","-","I","d">>, a) :
     pn \in {<<"X","-","R","e","q","u","e","s","t","-","I","d">>, <<"x","-","r","e","q","u","e","s","t","-","i","d">>},
     p \in {<<>>, <<<<"r","e","q","-","1">>, <<"r","e","q","-","2">>>>} \cup {<<v>> : v \in PrimaryValues},
     a \in {<<>>} \cup {<<v>> : v \in AliasValues}}

\* getOrCreateRequestId(headers) is called
DeriveId(headers, uuid) ==
  /\ obs = NoObs
  /\ obs' = [kind |-> "derive", headers |-> headers, uuid |-> uuid,
             rid |-> getOrCreateRequestId(headers, uuid)]
  /\ console' = <<>>
  /\ UNCHANGED <<lateVars, hookVars, scrubVars, logVars, clock, welVars, patchVars, store, stack, tasks>>

\* the response goes out with the id: setRequestIdHeader(responseHeaders, requestId)
Respond ==
  /\ obs.kind = "derive"
  /\ obs' = [kind |-> "respond", rid |-> obs.rid,
             headers |-> setRequestIdHeader(<< <<<<"c","o","n","t","e","n","t","-","t","y","p","e">>, <<"t","e","x","t","/","h","t","m","l">>>>,
                                               <<<<"x","-","r","e","q","u","e","s","t","-","i","d">>, <<"s","t","a","l","e">>>> >>, obs.rid.v)]
  /\ console' = <<>>
  /\ UNCHANGED <<lateVars, hookVars, scrubVars, logVars, clock, welVars, patchVars, store, stack, tasks>>

\* the request is over
Responded ==
  /\ obs.kind = "respond"
  /\ Quiet
  /\ UNCHANGED <<lateVars, hookVars, scrubVars, logVars, welVars, patchVars, store, stack, tasks>>

InboundNext ==
  \/ \E h \in DeriveHeaders, u \in RandomUuids : DeriveId(h, u)
  \/ Respond
  \/ Responded

SpecInbound == CtxInit /\ [][InboundNext]_vars

\* ------------------------------------------------------------------------
\* config.server.ts: validateRequiredConfig at startup
\* ------------------------------------------------------------------------

REQUIRED_ENV_VARS == <<<<"S","H","O","P","I","F","Y","_","A","P","I","_","K","E","Y">>, <<"S","H","O","P","I","F","Y","_","A","P","I","_","S","E","C","R","E","T">>, <<"S","H","O","P","I","F","Y","_","A","P","P","_","U","R","L">>, <<"S","C","O","P","E","S">>>>

isMissing(v) ==
  \/ v = Undefined
  \/ v.v = <<>>
  \/ trim(v.v) = <<>>
  \/ toLowerCase(trim(v.v)) \in {<<"c","h","a","n","g","e","m","e">>, <<"r","e","p","l","a","c","e","_","m","e">>, <<"t","o","d","o">>}

\* the elements of a set of indices, in increasing order
Ascending(idx) ==
  [j \in 1..Cardinality(idx) |-> CHOOSE i \in idx : Cardinality({x \in idx : x < i}) = j - 1]

\* REQUIRED_ENV_VARS.filter((k) => isMissing(env[k]))
MissingKeys(env) ==
  [j \in 1..Cardinality({i \in 1..Len(REQUIRED_ENV_VARS) : isMissing(env[i])}) |->
     REQUIRED_ENV_VARS[Ascending({i \in 1..Len(REQUIRED_ENV_VARS) : isMissing(env[i])})[j]]]

\* keys.join(", ")
RECURSIVE JoinKeys(_)
JoinKeys(keys) ==
  IF Len(keys) = 0 THEN <<>>
  ELSE IF Len(keys) = 1 THEN keys[1]
  ELSE keys[1] \o <<","," ">> \o JoinKeys(Tail(keys))

StrArr(keys) == Arr([i \in 1..Len(keys) |-> Str(keys[i])])

\* the arguments of the logger.error call of config.server.ts
ConfigErrorCall(missingKeys) ==
  [message |-> Str(<<"M","i","s","s","i","n","g"," ","r","e","q","u","i","r","e","d"," ","c","o","n","f","i","g","u","r","a","t","i","o","n"," ","k","e","y","s">>),
   meta |-> Obj(<< <<<<"m","i","s","s","i","n","g","K","e","y","s">>, StrArr(missingKeys)>>,
                   <<<<"e","v","e","n","t","T","y","p","e">>, Str(<<"s","t","a","r","t","u","p","_","c","o","n","f","i","g">>)>>,
                   <<<<"r","e","q","u","e","s","t","I","d">>, Str(<<"s","t","a","r","t","u","p">>)>>,
                   <<<<"m","e","r","c","h","a","n","t","I","d">>, Null>>,
                   <<<<"e","r","r","o","r","C","o","d","e">>, Str(<<"M","I","S","S","I","N","G","_","C","O","N","F","I","G">>)>>,
                   <<<<"e","r","r","o","r","M","e","s","s","a","g","e">>, Str(<<"M","i","s","s","i","n","g"," ","r","e","q","u","i","r","e","d"," ","s","e","r","v","e","r"," ","c","o","n","f","i","g","u","r","a","t","i","o","n">>)>> >>)]

\* the arguments of the logger.error call of the earlier revision
ConfigErrorCall_earlier(missingKeys) ==
  [message |-> Obj(<< <<<<"m","i","s","s","i","n","g","K","e","y","s">>, StrArr(missingKeys)>> >>),
   meta |-> Str(<<"M","i","s","s","i","n","g"," ","r","e","q","u","i","r","e","d"," ","c","o","n","f","i","g","u","r","a","t","i","o","n"," ","k","e","y","s">>)]

\* what a validateRequiredConfig call did: its logger.error calls, what the
\* logger wrote, and how it ended
ConfigResult(calls, logged, ending) ==
  [calls |-> calls, written |-> logged.written,
   outcome |-> IF logged.outcome.kind = "throw" THEN logged.outcome ELSE ending]

NoLog == [written |-> <<>>, outcome |-> Returned(Undefined)]

\* config.server.ts validateRequiredConfig(env): logs, and returns
validateRequiredConfig(env, missingKeys, rid, now) ==
  IF Len(missingKeys) > 0
    THEN ConfigResult(<<ConfigErrorCall(missingKeys)>>,
                      EmitOutcome(emit("error", ConfigErrorCall(missingKeys).message,
                                       ConfigErrorCall(missingKeys).meta, rid, now)),
                      Returned(Undefined))
    ELSE ConfigResult(<<>>, NoLog, Returned(Undefined))

\* the earlier revision (part_005): logs with the arguments swapped, and throws
validateRequiredConfig_earlier(env, missingKeys, rid, now) ==
  IF Len(missingKeys) > 0
    THEN ConfigResult(<<ConfigErrorCall_earlier(missingKeys)>>,
                      EmitOutcome(emit("error", ConfigErrorCall_earlier(missingKeys).message,
                                       ConfigErrorCall_earlier(missingKeys).meta, rid, now)),
                      Thrown(ErrorV(<<"E","r","r","o","r">>, <<"M","i","s","s","i","n","g"," ","r","e","q","u","i","r","e","d"," ","c","o","n","f","i","g","u","r","a","t","i","o","n"," ","k","e","y","s",":"," ">>
                                                \o JoinKeys(missingKeys))))
    ELSE ConfigResult(<<>>, NoLog, Returned(Undefined))

SECRET_ENV == <<"S","U","P","E","R","_","S","E","C","R","E","T","_","S","H","O","U","L","D","_","N","O","T","_","A","P","P","E","A","R">>

\* what an environment may hold under a required key
EnvValues == {Undefined, Str(<<>>), Str(<<" ","\t"," ">>), Str(<<" ","T","o","D","o"," ">>), Str(SECRET_ENV)}
FirstEnvValues == EnvValues \cup {Str(<<"C","H","A","N","G","E","M","E">>), Str(<<"r","e","p","l","a","c","e","_","m","e">>), Str(<<"t","o","d","o","s">>)}

Envs ==
  {<<a, b, c, d>> : a \in FirstEnvValues, b \in EnvValues, c \in EnvValues, d \in EnvValues}

\* validateRequiredConfig(env) is called at startup, outside any request
ValidateConfig(env) ==
  /\ obs = NoObs
  /\ \E r \in {validateRequiredConfig(env, MissingKeys(env), store, clock)} :
       /\ console' = r.written
       /\ obs' = [kind |-> "config", revision |-> "current", env |-> env,
                  calls |-> r.calls, outcome |-> r.outcome]
  /\ UNCHANGED <<lateVars, hookVars, scrubVars, logVars, clock, welVars, patchVars, store, stack, tasks>>

\* the same call on the earlier revision
ValidateConfigEarlier(env) ==
  /\ obs = NoObs
  /\ \E r \in {validateRequiredConfig_earlier(env, MissingKeys(env), store, clock)} :
       /\ console' = r.written
       /\ obs' = [kind |-> "config", revision |-> "earlier", env |-> env,
                  calls |-> r.calls, outcome |-> r.outcome]
  /\ UNCHANGED <<lateVars, hookVars, scrubVars, logVars, clock, welVars, patchVars, store, stack, tasks>>

\* vi.clearAllMocks(): the next test
ConfigClear ==
  /\ obs.kind = "config"
  /\ Quiet
  /\ UNCHANGED <<lateVars, hookVars, scrubVars, logVars, welVars, patchVars, store, stack, tasks>>

ConfigNext ==
  \/ \E env \in Envs : ValidateConfig(env)
  \/ \E env \in Envs : ValidateConfigEarlier(env)
  \/ ConfigClear

SpecConfig == CtxInit /\ [][ConfigNext]_vars

\* ------------------------------------------------------------------------
\* routes/webhooks.app.uninstalled.tsx: the action, one request at a time
\* ------------------------------------------------------------------------

SHOPIFY_UNINSTALL_TOPIC == <<"a","p","p","/","u","n","i","n","s","t","a","l","l","e","d">>

isExpectedUninstallTopic(topic) == topic = Str(SHOPIFY_UNINSTALL_TOPIC)

\* the base64 alphabet
B64 == <<"A","B","C","D","E","F","G","H","I","J","K","L","M","N","O","P","Q","R","S","T","U","V","W","X","Y","Z","a","b","c","d","e","f","g","h","i","j","k","l","m","n","o","p","q","r","s","t","u","v","w","x","y","z","0","1","2","3","4","5","6","7","8","9","+","/">>
B64Index(c) == CHOOSE i \in 1..64 : B64[i] = c

\* digest("base64") of a buffer of 3n bytes
RECURSIVE Base64Encode(_)
Base64Encode(bytes) ==
  IF Len(bytes) < 3 THEN <<>>
  ELSE LET n == bytes[1] * 65536 + bytes[2] * 256 + bytes[3]
       IN <<B64[(n \div 262144) + 1], B64[((n \div 4096) % 64) + 1],
            B64[((n \div 64) % 64) + 1], B64[(n % 64) + 1]>>
          \o Base64Encode(SubSeq(bytes, 4, Len(bytes)))

\* the bytes of groups of four base64 characters
RECURSIVE Base64Bytes(_)
Base64Bytes(cs) ==
  IF Len(cs) < 4 THEN <<>>
  ELSE LET n == (B64Index(cs[1]) - 1) * 262144 + (B64Index(cs[2]) - 1) * 4096
                + (B64Index(cs[3]) - 1) * 64 + (B64Index(cs[4]) - 1)
       IN <<n \div 65536, (n \div 256) % 256, n % 256>>
          \o Base64Bytes(SubSeq(cs, 5, Len(cs)))

\* Buffer.from(text, "base64"): characters outside the alphabet are skipped
Base64Decode(text) ==
  LET InAlphabet(c) == \E i \in 1..64 : B64[i] = c
  IN Base64Bytes(SelectSeq(text, InAlphabet))

WEBHOOK_SECRET == <<"s","h","p","s","s","-","s","e","c","r","e","t">>
UNINSTALL_BODY == <<"{","\"","s","h","o","p","_","i","d","\"",":","1","}">>
OTHER_BODY == <<"{","\"","s","h","o","p","_","i","d","\"",":","2","}">>

\* crypto.createHmac("sha256", secret).update(rawBody).digest(): the digest,
\* shortened to three bytes; different bodies and secrets give different digests
HmacSha256(secret, rawBody) ==
  <<IF secret = WEBHOOK_SECRET THEN 161 ELSE 17,
    IF rawBody = UNINSTALL_BODY THEN 43 ELSE 201,
    (Len(secret) + Len(rawBody)) % 256>>

\* only the lengths of the two buffers are compared
isValidShopifyWebhookHmac_lengthOnly(rawBody, hmacHeader, secret) ==
  IF hmacHeader = Null THEN FALSE
  ELSE IF secret = Undefined THEN FALSE
  ELSE Len(Base64Decode(Base64Encode(HmacSha256(secret.v, rawBody))))
         = Len(Base64Decode(hmacHeader.v))

\* isValidShopifyWebhookHmac(rawBody, hmacHeader), with SHOPIFY_API_SECRET
isValidShopifyWebhookHmac(rawBody, hmacHeader, secret) ==
  IF hmacHeader = Null THEN FALSE
  ELSE IF secret = Undefined THEN FALSE
  ELSE LET computedBuffer == Base64Decode(Base64Encode(HmacSha256(secret.v, rawBody)))
           providedBuffer == Base64Decode(hmacHeader.v)
       IN IF Len(computedBuffer) # Len(providedBuffer) THEN FALSE
          ELSE computedBuffer = providedBuffer

\* buildErrorMetadata(err): errorName and errorMessage derived from the error
buildErrorMetadata(err) ==
  << <<<<"e","r","r","o","r","N","a","m","e">>, Str(IF err.t = "error" THEN err.v[1] ELSE <<"E","r","r","o","r">>)>>,
     <<<<"e","r","r","o","r","M","e","s","s","a","g","e">>, Str(IF err.t = "error" THEN err.v[2] ELSE JsString(err))>> >>

\* a ?? undefined
OrUndefined(x) == IF x = Null THEN Undefined ELSE x

\* the metadata of the logEvent calls of the action
HookMeta(outcome, shopDomain, durationMs, topic, webhookId) ==
  << <<<<"e","v","e","n","t","T","y","p","e">>, Str(<<"w","e","b","h","o","o","k","_","u","n","i","n","s","t","a","l","l">>)>>,
     <<<<"o","u","t","c","o","m","e">>, Str(outcome)>>,
     <<<<"s","h","o","p","D","o","m","a","i","n">>, shopDomain>>,
     <<<<"d","u","r","a","t","i","o","n","M","s">>, Num(durationMs)>>,
     <<<<"t","o","p","i","c">>, topic>>,
     <<<<"w","e","b","h","o","o","k","I","d">>, webhookId>> >>

\* the logEvent calls made with the header values, before authenticate.webhook
HeaderEvent(message, req, durationMs) ==
  [message |-> Str(message),
   meta |-> Obj(HookMeta(<<"f","a","i","l","u","r","e">>, OrUndefined(req.shopDomain), durationMs,
                         OrUndefined(req.topic), OrUndefined(req.webhookId)))]

\* the logEvent calls made once authenticate.webhook has given shop and topic
CleanupEvent(message, outcome, req, durationMs, extra) ==
  [message |-> Str(message),
   meta |-> Obj(HookMeta(outcome, Str(SHOP_DOMAIN), durationMs,
                         Str(<<"A","P","P","_","U","N","I","N","S","T","A","L","L","E","D">>), OrUndefined(req.webhookId)) \o extra)]

\* the logEvent call of the catch block when authenticate.webhook itself threw
AuthFailedEvent(req, durationMs, err) ==
  [message |-> Str(<<"W","e","b","h","o","o","k"," ","u","n","i","n","s","t","a","l","l"," ","f","a","i","l","e","d">>),
   meta |-> Obj(HookMeta(<<"f","a","i","l","u","r","e">>, OrUndefined(req.shopDomain), durationMs,
                         OrUndefined(req.topic), OrUndefined(req.webhookId))
                \o buildErrorMetadata(err))]

\* lines 30-54: the events and the status of a request that is turned away
Rejection(req, durationMs) ==
  IF ~isValidShopifyWebhookHmac(req.rawBody, req.hmacHeader, req.secret)
    THEN [events |-> <<HeaderEvent(<<"W","e","b","h","o","o","k"," ","u","n","i","n","s","t","a","l","l"," ","r","e","j","e","c","t","e","d"," ","-"," ","i","n","v","a","l","i","d"," ","H","M","A","C">>, req, durationMs)>>,
          status |-> 401]
  ELSE IF ~isExpectedUninstallTopic(req.topic)
    THEN [events |-> <<HeaderEvent(<<"W","e","b","h","o","o","k"," ","u","n","i","n","s","t","a","l","l"," ","r","e","j","e","c","t","e","d"," ","-"," ","u","n","e","x","p","e","c","t","e","d"," ","t","o","p","i","c">>, req, durationMs)>>,
          status |-> 403]
  ELSE [events |-> <<>>, status |-> 0]

\* lines 56-108: the events and the status of the cleanup
Cleanup(req, durationMs, result) ==
  IF result.kind = "throw"
    THEN [events |-> <<IF result.at = "authenticate"
                         THEN AuthFailedEvent(req, durationMs, result.value)
                         ELSE CleanupEvent(<<"W","e","b","h","o","o","k"," ","u","n","i","n","s","t","a","l","l"," ","f","a","i","l","e","d">>, <<"f","a","i","l","u","r","e">>, req,
                                           durationMs, buildErrorMetadata(result.value))>>,
          status |-> 500]
    ELSE [events |-> (IF result.count > 0
                        THEN <<CleanupEvent(<<"M","e","r","c","h","a","n","t"," ","m","a","r","k","e","d"," ","u","n","i","n","s","t","a","l","l","e","d">>, <<"s","u","c","c","e","s","s">>, req,
                                            durationMs, <<>>)>>
                        ELSE <<>>)
                     \o <<CleanupEvent(<<"W","e","b","h","o","o","k"," ","u","n","i","n","s","t","a","l","l"," ","p","r","o","c","e","s","s","e","d">>, <<"s","u","c","c","e","s","s">>, req,
                                       durationMs, <<>>)>>,
          status |-> 200]

\* the logEvent calls are made in order; the lines they write
HookWrites(events, rid, now) ==
  [i \in 1..Len(events) |-> logEvent(events[i].message, events[i].meta, rid, now)]

\* withRequestIdHeader(new Response(null, { status }), requestId)
withRequestIdHeader(status, requestId) ==
  [t |-> "response", v |-> status,
   headers |-> HeadersSet(<<>>, REQUEST_ID_HEADER, requestId)]

\* the X-Shopify-Hmac-Sha256 headers: none, the signature of the body, the
\* same followed by a blank, the signature of another body, one made with
\* another secret, and one of another length
HmacHeaders ==
  {Null,
   Str(Base64Encode(HmacSha256(WEBHOOK_SECRET, UNINSTALL_BODY))),
   Str(Base64Encode(HmacSha256(WEBHOOK_SECRET, UNINSTALL_BODY)) \o <<" ">>),
   Str(Base64Encode(HmacSha256(WEBHOOK_SECRET, OTHER_BODY))),
   Str(Base64Encode(HmacSha256(<<"g","u","e","s","s","e","d">>, UNINSTALL_BODY))),
   Str(Base64Encode(<<161, 43, 25, 0, 0, 0>>))}

\* what the committed transaction wrote: merchant.updateMany and session.deleteMany
TransactionWrites(result) ==
  IF result.kind = "return"
    THEN <<[op |-> "merchant.updateMany", shop |-> SHOP_DOMAIN, status |-> "uninstalled",
            count |-> result.count],
           [op |-> "session.deleteMany", shop |-> SHOP_DOMAIN, status |-> "", count |-> 0]>>
    ELSE <<>>

\* the webhook requests
HookRequests ==
  [headers : {<<>>, << <<<<"X","-","R","e","q","u","e","s","t","-","I","d">>, <<"r","e","q","-","1">>>> >>},
   webhookId : {Null, Str(WEBHOOK_ID)},
   shopDomain : {Null, Str(SHOP_DOMAIN)},
   topic : {Null, Str(SHOPIFY_UNINSTALL_TOPIC), Str(<<"o","r","d","e","r","s","/","c","r","e","a","t","e">>)},
   rawBody : {UNINSTALL_BODY},
   hmacHeader : HmacHeaders,
   secret : {Undefined, Str(WEBHOOK_SECRET)}]

\* how authenticate.webhook and the transaction may end
CleanupResults ==
  {[kind |-> "return", count |-> 0], [kind |-> "return", count |-> 1],
   [kind |-> "throw", at |-> "authenticate", value |-> ResponseV(401)],
   [kind |-> "throw", at |-> "transaction", value |-> ErrorV(<<"E","r","r","o","r">>, <<"d","b"," ","d","o","w","n">>)]}

\* the action is called: withRequestId enters fn, which runs to await readRawRequestBody
HookAction(req, uuid) ==
  /\ hook = HookIdle
  /\ tasks = <<>>
  /\ EnterRequest(req.headers, uuid)
  /\ hook' = [pc |-> "body", req |-> req, started |-> clock, resumed |-> FALSE,
              requestId |-> getOrCreateRequestId(req.headers, uuid).v,
              events |-> <<>>, response |-> Undefined, writes |-> <<>>]

\* the action is suspended at its await
HookAwait ==
  /\ hook.pc \in {"body", "cleanup"}
  /\ ~hook.resumed
  /\ Suspends
  /\ Quiet
  /\ UNCHANGED <<lateVars, hookVars, scrubVars, logVars, welVars, patchVars>>

\* the request waits for the body, for Shopify or for the database
HookTick ==
  /\ hook.pc \in {"body", "cleanup"}
  /\ stack = <<>>
  /\ clock < MaxClock
  /\ clock' = clock + 1
  /\ UNCHANGED <<lateVars, hookVars, scrubVars, logVars, welVars, ctxVars, patchVars, console>>

\* what it waited for is there: the action is resumed
HookResume ==
  /\ hook.pc \in {"body", "cleanup"}
  /\ Resumes(1)
  /\ hook' = [hook EXCEPT !.resumed = TRUE]
  /\ Quiet
  /\ UNCHANGED <<lateVars, scrubVars, logVars, welVars, patchVars>>

\* the resumed action has written its events and goes on to the cleanup
HookGoesOn(written) ==
  /\ console' = written
  /\ hook' = [hook EXCEPT !.pc = "cleanup", !.resumed = FALSE, !.events = @ \o written]
  /\ obs' = NoObs
  /\ UNCHANGED <<lateVars, scrubVars, logVars, welVars, patchVars, clock, store, stack, tasks>>

\* the resumed action has written its events and returns its response
HookReturns(written, status, writes) ==
  /\ console' = written
  /\ hook' = [hook EXCEPT !.pc = "done", !.events = @ \o written, !.writes = writes,
                          !.response = withRequestIdHeader(status, hook.requestId)]
  /\ Ends(Returned(withRequestIdHeader(status, hook.requestId)))
  /\ obs' = NoObs
  /\ UNCHANGED <<lateVars, scrubVars, logVars, welVars, patchVars, clock>>

\* the body has been read: lines 28-54
HookBodyRead ==
  /\ hook.pc = "body"
  /\ hook.resumed
  /\ \E r \in {Rejection(hook.req, clock - hook.started)} :
       IF r.status = 0
         THEN HookGoesOn(HookWrites(r.events, store, clock))
         ELSE HookReturns(HookWrites(r.events, store, clock), r.status, <<>>)

\* authenticate.webhook and the transaction have ended: lines 56-108
HookCleanup(result) ==
  /\ hook.pc = "cleanup"
  /\ hook.resumed
  /\ \E r \in {Cleanup(hook.req, clock - hook.started, result)} :
       HookReturns(HookWrites(r.events, store, clock), r.status, TransactionWrites(result))

\* the response has gone out; the spies are cleared for the next request
HookReset ==
  /\ hook.pc = "done"
  /\ hook' = HookIdle
  /\ tasks' = <<>>
  /\ clock' = 0
  /\ obs' = NoObs
  /\ console' = <<>>
  /\ UNCHANGED <<lateVars, scrubVars, logVars, welVars, patchVars, store, stack>>

HookNext ==
  \/ \E req \in HookRequests, u \in RandomUuids : HookAction(req, u)
  \/ HookAwait
  \/ HookTick
  \/ HookResume
  \/ HookBodyRead
  \/ \E result \in CleanupResults : HookCleanup(result)
  \/ HookReset

SpecHook == CtxInit /\ [][HookNext]_vars

\* ------------------------------------------------------------------------
\* Claims about the correlation context
\* ------------------------------------------------------------------------

\* the observation was made by the code of an inbound request
ByRequest == obs # NoObs /\ obs.task # 0 /\ tasks[obs.task].entry = "withRequestId"

\* another inbound request is in flight, suspended at an await
OtherInFlight ==
  \E u \in 1..Len(tasks) :
    u # obs.task /\ tasks[u].entry = "withRequestId" /\ tasks[u].st = "suspended"

\* the X-Request-Id header of the request that reached the original fetch
SentRequestId == HeadersGet(obs.sent.headers, <<"X","-","R","e","q","u","e","s","t","-","I","d">>)

\* C13: while another request is in flight, whatever a request's code observes
\* (getRequestId, the requestId of its log record, the X-Request-Id of its
\* outbound fetch) is that request's own id, before and after its suspensions.
C13_OwnIdObserved ==
  (ByRequest /\ OtherInFlight) =>
    /\ obs.rid = Str(tasks[obs.task].id)
    /\ obs.kind = "logger" =>
         Get(console[1].line, <<"r","e","q","u","e","s","t","I","d">>) = Str(tasks[obs.task].id)
    /\ obs.kind = "fetch" => SentRequestId = Str(tasks[obs.task].id)

C13_Witness ==
  /\ ByRequest
  /\ obs.kind = "logger"
  /\ tasks[obs.task].captured # Undefined
  /\ \E u \in 1..Len(tasks) :
       /\ u # obs.task
       /\ tasks[u].entry = "withRequestId"
       /\ tasks[u].st = "suspended"
       /\ tasks[u].id # tasks[obs.task].id
  /\ Get(console[1].line, <<"r","e","q","u","e","s","t","I","d">>) = Str(tasks[obs.task].id)

\* C14: getRequestId inside fn returns the id of the innermost runWithRequestId
\* for the whole execution of fn; once the call has exited the store is what
\* it was before the call (none at top level); fn's outcome reaches the caller.
C14_ScopedToFn ==
  /\ (obs # NoObs /\ obs.kind = "getRequestId") =>
       obs.rid = IF obs.task = 0 THEN Undefined ELSE Str(tasks[obs.task].id)
  /\ \A t \in 1..Len(tasks) :
       /\ tasks[t].exited => tasks[t].after = tasks[t].before
       /\ tasks[t].st = "done" => tasks[t].delivered = tasks[t].outcome

C14_Witness ==
  /\ obs # NoObs
  /\ obs.kind = "getRequestId"
  /\ obs.task = 1
  /\ tasks[1].captured # Undefined
  /\ Len(tasks) = 2
  /\ tasks[2].caller = 1
  /\ tasks[2].id # tasks[1].id
  /\ tasks[2].st = "done"
  /\ tasks[2].outcome.kind = "throw"

\* the caller's own X-Request-Id: the one in the init headers, else the one on
\* the Request object, else null
CallerRequestId ==
  IF obs.init # Undefined /\ obs.init.headers # NoHeaders
       /\ \E i \in 1..Len(obs.init.headers.v) :
            toLowerCase(obs.init.headers.v[i][1]) = <<"x","-","r","e","q","u","e","s","t","-","i","d">>
    THEN Str((CHOOSE e \in Range(obs.init.headers.v) : toLowerCase(e[1]) = <<"x","-","r","e","q","u","e","s","t","-","i","d">>)[2])
  ELSE IF obs.input.t = "request"
       /\ \E i \in 1..Len(obs.input.headers) : obs.input.headers[i][1] = <<"x","-","r","e","q","u","e","s","t","-","i","d">>
    THEN Str((CHOOSE e \in Range(obs.input.headers) : e[1] = <<"x","-","r","e","q","u","e","s","t","-","i","d">>)[2])
  ELSE Null

\* C15: with the patch installed and an id active, the request that leaves
\* carries the caller's X-Request-Id when the caller gave one (on the Request
\* or in the init headers) and the active id otherwise; with no id active the
\* original fetch gets the caller's arguments as they are.
C15_FetchCarriesId ==
  (obs.kind = "fetch" /\ globalFetch >= 1) =>
    /\ (obs.rid # Undefined /\ obs.rid.v # <<>>) =>
         SentRequestId = IF CallerRequestId = Null THEN obs.rid ELSE CallerRequestId
    /\ obs.rid = Undefined =>
         obs.passed = [input |-> obs.input, init |-> obs.init]

\* C16: the global fetch is wrapped at most once; an install while a handle is
\* current returns that handle and adds no wrapper; after a disable, and until
\* the next install, fetch is the original and passes its arguments through.
C16_InstallIdempotent ==
  /\ globalFetch <= 1
  /\ (obs.kind = "enable" /\ obs.current # 0) =>
       obs.handle = obs.current /\ globalFetch = obs.wrappers
  /\ restoreFetchPatch = 0 => globalFetch = 0
  /\ (obs.kind = "fetch" /\ restoreFetchPatch = 0) =>
       obs.hops = 0 /\ obs.passed = [input |-> obs.input, init |-> obs.init]

C16_Witness ==
  /\ obs.kind = "enable"
  /\ obs.current # 0
  /\ obs.handle = 2
  /\ globalFetch = 1

\* what Headers.get gives for the two inbound headers
PrimaryRaw == HeadersGet(obs.headers, <<"X","-","R","e","q","u","e","s","t","-","I","d">>)
AliasRaw == HeadersGet(obs.headers, <<"X","-","C","o","r","r","e","l","a","t","i","o","n","-","I","d">>)

\* 1 to 128 characters, all of them letters, digits, '.', '_' or '-'
ValidId(v) ==
  /\ Len(v) >= 1
  /\ Len(v) <= 128
  /\ \A i \in 1..Len(v) : v[i] \in Letter \cup Digit \cup {".", "_", "-"}

\* the header value once trimmed and freed of one pair of braces
Bare(raw) == StripBraces(trim(raw.v))

\* the header is there and holds a usable id, once trimmed and freed of braces
Usable(raw) == raw # Null /\ trim(raw.v) # <<>> /\ ValidId(Bare(raw))

\* the header is there, with a character outside the set or more than 128 characters
PresentUnusable(raw) ==
  /\ raw # Null
  /\ \/ Len(raw.v) > 128
     \/ \E i \in 1..Len(raw.v) : raw.v[i] \notin Letter \cup Digit \cup {".", "_", "-"}

\* C17 as stated: a primary header that is present but unusable gives a freshly
\* generated id; the alias only counts when the primary header is absent.
C17_UnusablePrimaryGivesFresh ==
  (obs.kind = "derive" /\ PresentUnusable(PrimaryRaw)) => obs.rid = Str(obs.uuid)

\* C17 as amended: a primary header that holds no usable id, once trimmed and
\* freed of one pair of braces, counts as absent: the result is the alias
\* header's id when that one is usable, and a freshly generated id otherwise.
C17_UnusablePrimaryIsAbsent ==
  (obs.kind = "derive" /\ ~Usable(PrimaryRaw)) =>
    obs.rid = IF Usable(AliasRaw) THEN Str(Bare(AliasRaw)) ELSE Str(obs.uuid)

C17_Witness ==
  /\ obs.kind = "derive"
  /\ PrimaryRaw = Str(<<"b","a","d"," ","i","d">>)
  /\ AliasRaw = Str(<<"c","o","r","r","-","1">>)
  /\ obs.rid = Str(<<"c","o","r","r","-","1">>)

\* C18: a valid id in X-Request-Id is returned as it is, whatever the alias
\* header holds; every id returned is non-empty, at most 128 characters long
\* and made of letters, digits, '.', '_' and '-' (a generated UUID is).
C18_ValidIdReturned ==
  obs.kind = "derive" =>
    /\ (PrimaryRaw # Null /\ ValidId(PrimaryRaw.v)) => obs.rid = PrimaryRaw
    /\ obs.rid.t = "string" /\ ValidId(obs.rid.v)

C18_Witness ==
  /\ obs.kind = "derive"
  /\ PrimaryRaw = Str(Repeat("a", 128))
  /\ AliasRaw = Str(<<"c","o","r","r","-","1">>)
  /\ obs.rid = PrimaryRaw

\* the required key is undefined, empty, whitespace-only or a placeholder
ValueMissing(v) ==
  \/ v = Undefined
  \/ \A i \in 1..Len(v.v) : v.v[i] \in Whitespace
  \/ \E ph \in {<<"c","h","a","n","g","e","m","e">>, <<"r","e","p","l","a","c","e","_","m","e">>, <<"t","o","d","o">>} :
       Len(trim(v.v)) = Len(ph) /\ MatchesAt(trim(v.v), 1, ph)

NamesMissing == {i \in 1..4 : ValueMissing(obs.env[i])}

\* the names of the missing keys, in REQUIRED_ENV_VARS order
ExpectedMissingKeys ==
  Arr([j \in 1..Cardinality(NamesMissing) |->
         Str(REQUIRED_ENV_VARS[CHOOSE i \in NamesMissing :
                                 Cardinality({x \in NamesMissing : x < i}) = j - 1])])

\* the object among the arguments of the logger.error call
CallObject ==
  IF obs.calls[1].message.t = "object" THEN obs.calls[1].message ELSE obs.calls[1].meta

\* C19: validateRequiredConfig throws an Error that names the missing keys
\* exactly when a required key is undefined, empty, whitespace-only or a
\* placeholder, and then calls logger.error once, with missingKeys the missing
\* names in order and no environment value; otherwise it neither throws nor logs.
C19_ThrowsIffMissing ==
  obs.kind = "config" =>
    IF NamesMissing # {}
      THEN /\ obs.outcome.kind = "throw"
           /\ obs.outcome.value.t = "error"
           /\ \A i \in NamesMissing : Contains(obs.outcome.value.v[2], REQUIRED_ENV_VARS[i])
           /\ Len(obs.calls) = 1
           /\ Get(CallObject, <<"m","i","s","s","i","n","g","K","e","y","s">>) = ExpectedMissingKeys
           /\ ~Mentions(CallObject, SECRET_ENV)
      ELSE obs.outcome.kind = "return" /\ obs.calls = <<>> /\ console = <<>>

\* C20: a request handled by the app-uninstalled action has produced exactly
\* one event record, with one outcome, when its response is returned.
C20_OneEventPerRequest ==
  hook.pc = "done" =>
    /\ Len(hook.events) = 1
    /\ Get(hook.events[1].line, <<"o","u","t","c","o","m","e">>) \in {Str(<<"s","u","c","c","e","s","s">>), Str(<<"f","a","i","l","u","r","e">>)}

\* ------------------------------------------------------------------------
\* The message scrubber beside the value scrubber, on one string
\* ------------------------------------------------------------------------

TUNNEL_HOST == <<"h","e","a","r","d","-","c","o","l","l","e","c","t","i","b","l","e","-","u","n","d","e","r","t","a","k","e","n","-","w","e","a","t","h","e","r",".","t","r","y","c","l","o","u","d","f","l","a","r","e",".","c","o","m">>

MessageInputs ==
  ScrubInputs \cup {TUNNEL_HOST, <<"a","s","t","r","a","-","c","h","a","t","-","p","r","o","d","u","c","t","i","o","n",".","m","y","s","h","o","p","i","f","y",".","c","o","m">>, <<"a",".","b",".","c">>,
                    <<"e","m","b","e","d","d","e","d",".","a","u","t","h",".","c","a","l","l","b","a","c","k",".","d","o","n","e">>, <<"o","a","u","t","h",".","c","a","l","l","b","a","c","k",".","s","t","a","t","e","=","x","y","z">>}

\* logger.server.ts: redactLogMessage(s) as emit applies it to the message,
\* sanitizeValue(s) as sanitizeMeta applies it to a metadata string
CallLoggerScrubbers(s) ==
  /\ scrubCall = NoCall
  /\ scrubCall' = [fn |-> "logger.server", arg |-> s]
  /\ scrubRet' = [message |-> redactLogMessage_logger(s), value |-> sanitizeValue_logger(Str(s)).v]
  /\ UNCHANGED <<lateVars, hookVars, ctxVars, patchVars, logVars, envVars, welVars>>

\* redact.server.ts: redactLogMessage(s) and redactString(s)
CallRedactScrubbers(s) ==
  /\ scrubCall = NoCall
  /\ scrubCall' = [fn |-> "redact.server", arg |-> s]
  /\ scrubRet' = [message |-> redactLogMessage_redact(s), value |-> redactString(s)]
  /\ UNCHANGED <<lateVars, hookVars, ctxVars, patchVars, logVars, envVars, welVars>>

MessageNext ==
  \/ \E s \in MessageInputs : CallLoggerScrubbers(s)
  \/ \E s \in MessageInputs : CallRedactScrubbers(s)
  \/ ScrubReturn

SpecMessage == ScrubInit /\ [][MessageNext]_vars

\* ------------------------------------------------------------------------
\* The logger and redactForLogs, called with an errorMessage
\* ------------------------------------------------------------------------

OAUTH_FAILURE == <<"f","a","i","l","e","d"," ","w","i","t","h"," ","c","o","d","e","=","a","b","c","d","1","2","3","4","&","h","m","a","c","=","f","f","f","f","&","s","t","a","t","e","=","z","z","z","z"," ","t","o","k","e","n","=","s","h","p","a","t","_","1","2","3">>

ErrorTexts == TokenStrings \cup OtherStrings \cup {OAUTH_FAILURE, <<"f","e","t","c","h"," ","f","a","i","l","e","d",":"," ","B","e","a","r","e","r"," ","a","b","c",".","d","e","f",".","g","h","i",","," ","s","t","a","t","u","s"," ","4","0","1">>}

\* the metadata { errorMessage: text }
ErrorProbe(text) ==
  [key |-> ERROR_MESSAGE_KEY, val |-> Str(text), nest |-> 0, pad |-> 0, twin |-> FALSE]

\* logger.error(message, { errorMessage }) and its siblings
LogErrorMessage(level, rid, text) ==
  LoggerCall(level, rid, Str(<<"o","o","p","s">>), MetaOf(ErrorProbe(text)), ErrorProbe(text))

\* redactForLogs({ errorMessage })
RedactErrorMessage(text) == RedactForLogsCall(MetaOf(ErrorProbe(text)), ErrorProbe(text))

ErrorMessageNext ==
  \/ \E ctx \in LogContexts, text \in ErrorTexts : LogErrorMessage(ctx[1], ctx[2], text)
  \/ \E text \in ErrorTexts : RedactErrorMessage(text)
  \/ LogClear

SpecErrorMessage == LogInit /\ [][ErrorMessageNext]_vars

\* ------------------------------------------------------------------------
\* The sanitizers, called with wide arrays and objects
\* ------------------------------------------------------------------------

ArrayLens == {0, 1, ArrayCap - 1, ArrayCap, ArrayCap + 1, ArrayCap + 10}
EntryCounts == {0, 1, EntryCap - 1, EntryCap, EntryCap + 1, EntryCap + 10}

\* where the element or entry that is no plain number sits
MarkedPlaces == {1, ArrayCap, ArrayCap + 1, EntryCap, EntryCap + 1}

MarkedElements == {Num(0), Str(SECRET), Str(<<"s","h","p","a","t","_","1","a","2","b">>), Obj(<< <<<<"t","o","k","e","n">>, Str(SECRET)>> >>)}

MarkedKeys == {<<"n","o","t","e">>, <<"t","o","k","e","n">>, <<"s","h","o","p">>, TRUNCATED_KEY}

\* an array of n elements, e at place p
WideArray(n, p, e) == Arr([i \in 1..n |-> IF i = p THEN e ELSE Num(i)])

\* an object of n entries, k: e at place p
WideObject(n, p, k, e) ==
  Obj([i \in 1..n |-> IF i = p THEN <<k, e>> ELSE <<<<"k">> \o ToDecimal(i), Num(i)>>])

WideValues ==
  {WideArray(n, p, e) : n \in ArrayLens, p \in MarkedPlaces, e \in MarkedElements}
  \cup {WideObject(n, p, k, e) : n \in EntryCounts, p \in MarkedPlaces, k \in MarkedKeys,
                                 e \in {Str(SECRET), Bool(FALSE)}}

\* the metadata { ctx: x }
WideProbe(x) == [key |-> <<"c","t","x">>, val |-> x, nest |-> 0, pad |-> 0, twin |-> FALSE]

\* x is the metadata itself
TopProbe(x) == [key |-> <<>>, val |-> x, nest |-> 0, pad |-> 0, twin |-> FALSE]

\* logger.*(message, { ctx: x })
LogWide(level, rid, x) ==
  LoggerCall(level, rid, Str(EVENT_MESSAGE), MetaOf(WideProbe(x)), WideProbe(x))

\* redactForLogs({ ctx: x })
RedactWide(x) == RedactForLogsCall(MetaOf(WideProbe(x)), WideProbe(x))

\* redactForLogs(x)
RedactTop(x) == RedactForLogsCall(x, TopProbe(x))

WideNext ==
  \/ \E ctx \in LogContexts, x \in WideValues : LogWide(ctx[1], ctx[2], x)
  \/ \E x \in WideValues : RedactWide(x)
  \/ \E x \in WideValues : RedactTop(x)
  \/ LogClear

SpecWide == LogInit /\ [][WideNext]_vars

\* ------------------------------------------------------------------------
\* sanitizeMeta over structures that refer to themselves
\*
\* A JavaScript object is a reference: the heap is a sequence of arrays and
\* objects, and an element or entry value may be Ref(n), the n-th of them.
\* sanitizeMeta runs one loop turn at a time on a stack of its activations.
\* ------------------------------------------------------------------------

\* the activations the JavaScript stack has room for
MaxStack == 9

Ref(n) == [t |-> "ref", v |-> n]
Deref(heap, x) == IF x.t = "ref" THEN heap[x.v] ELSE x
IsContainer(x) == x.t \in {"array", "object"}

\* sanitizeMeta(y, d) goes into its array or object branch
NeedsFrame_noDepthTest(y, d) == IsContainer(y)

NeedsFrame(y, d) == d <= MaxDepth /\ IsContainer(y)

\* sanitizeMeta(y, d) when it does not loop: the depth test, null and
\* undefined, and the values that are no array and no object
Immediate(fn, y, d) ==
  IF d > MaxDepth THEN Str(TRUNCATED_MARK)
  ELSE IF fn = "redactForLogs" THEN sanitizeMeta_redact(y, d)
  ELSE sanitizeMeta_logger(y, d)

\* what the loop over Object.entries does with the entry k: x before any
\* recursive call: the marker it stores, or the value it passes on
EntryVerdict(fn, k, x) ==
  IF fn = "redactForLogs"
    THEN IF toLowerCase(k) \in ALLOW_KEYS THEN [recurse |-> TRUE, v |-> x]
         ELSE IF toLowerCase(k) = toLowerCase(ERROR_MESSAGE_KEY) /\ x.t = "string"
           THEN [recurse |-> FALSE, v |-> Str(sanitizeErrorMessage(x.v))]
         ELSE IF BODY_KEY_RE(toLowerCase(k)) THEN [recurse |-> FALSE, v |-> Str(OMITTED_MARK)]
         ELSE IF SENSITIVE_KEY_RE_redact(toLowerCase(k)) THEN [recurse |-> FALSE, v |-> Str(REDACTED)]
         ELSE [recurse |-> TRUE, v |-> sanitizeValue_redact(x)]
    ELSE IF toLowerCase(k) \in ALLOW_KEYS THEN [recurse |-> TRUE, v |-> sanitizeValue_logger(x)]
         ELSE IF SENSITIVE_KEY_RE_logger(k)
           THEN [recurse |-> FALSE,
                 v |-> IF BodyKeyTest_logger(k) THEN Str(OMITTED_MARK) ELSE Str(REDACTED)]
         ELSE [recurse |-> TRUE, v |-> sanitizeValue_logger(x)]

\* the activation sanitizeMeta(input, depth): out holds what its loop has
\* produced so far
Frame(input, depth) == [input |-> input, depth |-> depth, out |-> <<>>]

\* how many elements or entries the loop of the activation takes
Turns(f) ==
  IF f.input.t = "array" THEN Len(FirstN(f.input.v, ArrayCap))
  ELSE Len(FirstN(f.input.v, EntryCap))

\* the element or entry the loop is at
Item(f) == f.input.v[Len(f.out) + 1]

\* the result x of the current loop turn is stored
Stored(f, x) ==
  [f EXCEPT !.out = Append(@, IF f.input.t = "array" THEN x ELSE <<Item(f)[1], x>>)]

\* what the activation returns when its loop has ended
FrameResult(f) ==
  IF f.input.t = "array" THEN Arr(f.out) ELSE MarkTruncated(Obj(f.out), f.input)

\* the run after the current loop turn has called sanitizeMeta(y, depth + 1)
SanRecurse(y) ==
  LET n == Len(san.stack)
      f == san.stack[n]
  IN  IF ~NeedsFrame(y, f.depth + 1)
        THEN [san EXCEPT !.stack[n] = Stored(f, Immediate(san.fn, y, f.depth + 1))]
      ELSE IF n >= MaxStack
        \* RangeError: Maximum call stack size exceeded
        THEN [san EXCEPT !.pc = "threw", !.stack = <<>>]
      ELSE [san EXCEPT !.stack = Append(@, Frame(y, f.depth + 1))]

\* the run after the loop turn for an entry, r being what the key rules say
SanEntryTurn(f, r) ==
  IF r.recurse THEN SanRecurse(r.v)
  ELSE [san EXCEPT !.stack[Len(san.stack)] = Stored(f, r.v)]

\* sanitizeMeta(input) is called from outside
SanCall(fn, in) ==
  /\ san = SanIdle
  /\ san' = IF NeedsFrame(Deref(in.heap, in.root), 0)
              THEN [pc |-> "running", fn |-> fn, in |-> in,
                    stack |-> <<Frame(Deref(in.heap, in.root), 0)>>, result |-> Undefined]
              ELSE [pc |-> "returned", fn |-> fn, in |-> in, stack |-> <<>>,
                    result |-> Immediate(fn, Deref(in.heap, in.root), 0)]
  /\ UNCHANGED <<hookVars, ctxVars, patchVars, scrubVars, logVars, envVars, welVars, ssr, route, reg>>

\* one turn of the loop of the innermost activation
SanTurn ==
  /\ san.pc = "running"
  /\ Len(san.stack[Len(san.stack)].out) < Turns(san.stack[Len(san.stack)])
  /\ san' = LET f == san.stack[Len(san.stack)]
            IN  IF f.input.t = "array"
                  THEN SanRecurse(Deref(san.in.heap, Item(f)))
                  ELSE SanEntryTurn(f, EntryVerdict(san.fn, Item(f)[1],
                                                    Deref(san.in.heap, Item(f)[2])))
  /\ UNCHANGED <<hookVars, ctxVars, patchVars, scrubVars, logVars, envVars, welVars, ssr, route, reg>>

\* the loop of the innermost activation has ended: it returns to its caller
SanReturn ==
  /\ san.pc = "running"
  /\ Len(san.stack[Len(san.stack)].out) = Turns(san.stack[Len(san.stack)])
  /\ LET n == Len(san.stack)
         x == FrameResult(san.stack[n])
     IN  san' = IF n = 1
                  THEN [san EXCEPT !.pc = "returned", !.stack = <<>>, !.result = x]
                  ELSE [san EXCEPT !.stack = [i \in 1..(n - 1) |->
                                                IF i = n - 1 THEN Stored(san.stack[i], x)
                                                ELSE san.stack[i]]]
  /\ UNCHANGED <<hookVars, ctxVars, patchVars, scrubVars, logVars, envVars, welVars, ssr, route, reg>>

\* the caller has its value, or its exception
SanReset ==
  /\ san.pc \in {"returned", "threw"}
  /\ san' = SanIdle
  /\ UNCHANGED <<hookVars, ctxVars, patchVars, scrubVars, logVars, envVars, welVars, ssr, route, reg>>

\* const a = { self: a, id: 7 }
SELF_OBJECT == [heap |-> <<Obj(<< <<<<"s","e","l","f">>, Ref(1)>>, <<<<"i","d">>, Num(7)>> >>)>>, root |-> Ref(1)]
\* const l = [l, 1]
SELF_ARRAY == [heap |-> <<Arr(<<Ref(1), Num(1)>>)>>, root |-> Ref(1)]
\* parent.children = [child, child]; child.parent = parent
PARENT_CHILD ==
  [heap |-> <<Obj(<< <<<<"c","h","i","l","d","r","e","n">>, Ref(2)>> >>), Arr(<<Ref(3), Ref(3)>>),
              Obj(<< <<<<"p","a","r","e","n","t">>, Ref(1)>>, <<<<"p","o","s","i","t","i","o","n">>, Num(2)>> >>)>>,
   root |-> Ref(1)]
\* const t = { left: t, right: t }
SELF_TWICE == [heap |-> <<Obj(<< <<<<"l","e","f","t">>, Ref(1)>>, <<<<"r","i","g","h","t">>, Ref(1)>> >>)>>, root |-> Ref(1)]
\* a cycle through an allowlisted key, a sensitive key and errorMessage
KEYED_CYCLE ==
  [heap |-> <<Obj(<< <<<<"s","h","o","p">>, Ref(1)>>, <<<<"t","o","k","e","n">>, Ref(1)>>, <<<<"e","r","r","o","r","M","e","s","s","a","g","e">>, Ref(1)>>,
                     <<<<"b","o","d","y">>, Ref(1)>> >>)>>,
   root |-> Ref(1)]
\* an object of n entries whose first entry is the object itself
WideSelfObject(n) ==
  [heap |-> <<Obj([i \in 1..n |-> IF i = 1 THEN <<<<"s","e","l","f">>, Ref(1)>>
                                  ELSE <<<<"k">> \o ToDecimal(i), Num(i)>>])>>,
   root |-> Ref(1)]
\* an array of n elements whose last element within the cap is the array itself
WideSelfArray(n) ==
  [heap |-> <<Arr([i \in 1..n |-> IF i = ArrayCap THEN Ref(1) ELSE Num(i)])>>, root |-> Ref(1)]
\* no cycle: a tree
PLAIN_TREE ==
  [heap |-> <<Obj(<< <<<<"l","i","s","t">>, Arr(<<Num(1), Bool(TRUE)>>)>>, <<<<"n","o","t","e">>, Null>> >>)>>,
   root |-> Ref(1)]

SanInputs ==
  {SELF_OBJECT, SELF_ARRAY, PARENT_CHILD, SELF_TWICE, KEYED_CYCLE, PLAIN_TREE,
   WideSelfObject(EntryCap + 1), WideSelfArray(ArrayCap + 1)}

SanRun == SanTurn \/ SanReturn

SanNext ==
  \/ \E fn \in {"sanitizeMeta", "redactForLogs"}, in \in SanInputs : SanCall(fn, in)
  \/ SanTurn
  \/ SanReturn
  \/ SanReset

\* a call that has begun runs on: the interpreter does not stop by itself
SpecSanitize == LogInit /\ [][SanNext]_vars /\ WF_vars(SanRun)

\* ------------------------------------------------------------------------
\* entry.server.tsx: handleRequest
\* ------------------------------------------------------------------------

\* new Response(body, { status, headers }): the headers are copied
NewResponse(status, headers) == [t |-> "response", v |-> status, headers |-> headers]

\* what addDocumentResponseHeaders (the Shopify library) may do to the
\* response headers
ShopifyHeaders ==
  {<< <<<<"C","o","n","t","e","n","t","-","S","e","c","u","r","i","t","y","-","P","o","l","i","c","y">>, <<"f","r","a","m","e","-","a","n","c","e","s","t","o","r","s"," ","h","t","t","p","s",":","/","/","a","d","m","i","n",".","s","h","o","p","i","f","y",".","c","o","m">>>> >>,
   << <<<<"C","o","n","t","e","n","t","-","S","e","c","u","r","i","t","y","-","P","o","l","i","c","y">>, <<"f","r","a","m","e","-","a","n","c","e","s","t","o","r","s"," ","h","t","t","p","s",":","/","/","a","d","m","i","n",".","s","h","o","p","i","f","y",".","c","o","m">>>>,
      <<<<"X","-","R","e","q","u","e","s","t","-","I","d">>, <<"s","h","o","p","i","f","y","-","e","d","g","e","-","1">>>> >>}

RECURSIVE SetAll(_, _)
SetAll(h, es) ==
  IF es = <<>> THEN h ELSE SetAll(HeadersSet(h, es[1][1], es[1][2]), Tail(es))

\* the response headers the framework hands to handleRequest
FrameworkHeaders ==
  {<<>>, << <<<<"x","-","r","e","q","u","e","s","t","-","i","d">>, <<"l","o","a","d","e","r","-","i","d","-","0">>>> >>, << <<<<"c","a","c","h","e","-","c","o","n","t","r","o","l">>, <<"n","o","-","s","t","o","r","e">>>> >>}

SSR_URL == <<"h","t","t","p","s",":","/","/","a","p","p",".","e","x","a","m","p","l","e","/","a","p","p">>
RENDER_ERROR == ErrorV(<<"E","r","r","o","r">>, <<"r","e","n","d","e","r"," ","f","a","i","l","e","d">>)
ABORT_ERROR == ErrorV(<<"E","r","r","o","r">>, <<"T","h","e"," ","r","e","n","d","e","r"," ","w","a","s"," ","a","b","o","r","t","e","d"," ","b","y"," ","t","h","e"," ","s","e","r","v","e","r"," ","w","i","t","h","o","u","t"," ","a"," ","r","e","a","s","o","n",".">>)

\* the calls of handleRequest: the inbound headers, the status and headers the
\* framework passes, the user agent, and how the synchronous part goes
SsrCalls ==
  [headers : {<<>>, << <<<<"X","-","R","e","q","u","e","s","t","-","I","d">>, <<"r","e","q","-","1">>>> >>, << <<<<"X","-","C","o","r","r","e","l","a","t","i","o","n","-","I","d">>, <<"c","o","r","r","-","1">>>> >>},
   responseStatusCode : {200, 404},
   responseHeaders : FrameworkHeaders,
   shopify : ShopifyHeaders,
   bot : BOOLEAN,
   start : {"rendering", "addDocumentResponseHeaders throws", "renderToPipeableStream throws"}]

\* logger.error(message, { eventType: "ssr_render", url, ...buildErrorMetadata(err) })
SsrLog(message, err) ==
  EmitOutcome(emit("error", Str(message),
                   Obj(<< <<<<"e","v","e","n","t","T","y","p","e">>, Str(<<"s","s","r","_","r","e","n","d","e","r">>)>>, <<<<"u","r","l">>, Str(SSR_URL)>> >>
                       \o buildErrorMetadata(err)),
                   Str(ssr.requestId), clock)).written

\* responseHeaders.set("Content-Type", type); setRequestIdHeader(responseHeaders, requestId)
SsrHeaders(headers, type, requestId) ==
  setRequestIdHeader(HeadersSet(headers, <<"C","o","n","t","e","n","t","-","T","y","p","e">>, type), requestId)

\* the 500 response of the fallbacks
SsrFallback(headers, requestId) ==
  NewResponse(500, SsrHeaders(headers, <<"t","e","x","t","/","p","l","a","i","n">>, requestId))

\* handleRequest is called and runs to its await, or to the return of its
\* catch block when starting the render fails
SsrHandleRequest(c, uuid) ==
  /\ ssr = SsrIdle
  /\ \E p \in {IF runtimePatched
                 THEN [globalFetch |-> globalFetch, restoreFetchPatch |-> restoreFetchPatch,
                       handles |-> handles]
                 ELSE enableFetchRequestIdPropagation(globalFetch, restoreFetchPatch, handles)} :
       /\ globalFetch' = p.globalFetch
       /\ restoreFetchPatch' = p.restoreFetchPatch
       /\ handles' = p.handles
  /\ runtimePatched' = TRUE
  /\ \E requestId \in {getOrCreateRequestId(c.headers, uuid).v} :
       \E set \in {setRequestIdHeader(SetAll(c.responseHeaders, c.shopify), requestId)} :
         IF c.start = "rendering"
           THEN /\ ssr' = [pc |-> "rendering", requestId |-> requestId, bot |-> c.bot,
                           responseStatusCode |-> c.responseStatusCode,
                           responseHeaders |-> set, timer |-> TRUE,
                           response |-> Undefined, path |-> "none"]
                /\ console' = <<>>
           ELSE \E headers \in {IF c.start = "addDocumentResponseHeaders throws"
                                  THEN c.responseHeaders ELSE set} :
                  /\ ssr' = [pc |-> "done", requestId |-> requestId, bot |-> c.bot,
                             responseStatusCode |-> c.responseStatusCode,
                             responseHeaders |-> SsrHeaders(headers, <<"t","e","x","t","/","p","l","a","i","n">>, requestId),
                             timer |-> FALSE,
                             response |-> SsrFallback(headers, requestId),
                             path |-> "synchronous failure"]
                  /\ console' = EmitOutcome(
                       emit("error", Str(<<"F","a","i","l","e","d"," ","t","o"," ","i","n","i","t","i","a","t","e"," ","S","S","R">>),
                            Obj(<< <<<<"e","v","e","n","t","T","y","p","e">>, Str(<<"s","s","r","_","r","e","n","d","e","r">>)>>, <<<<"u","r","l">>, Str(SSR_URL)>> >>
                                \o buildErrorMetadata(RENDER_ERROR)),
                            Str(requestId), clock)).written
  /\ UNCHANGED <<hookVars, ctxVars, scrubVars, logVars, welVars, clock, san, route, reg>>

\* the ready callback (onShellReady, or onAllReady for a bot) runs; thrown says
\* where an exception is raised in it: nowhere, before resolve, or in pipe(body)
SsrReady(thrown) ==
  /\ ssr.pc = "rendering"
  /\ IF thrown = "before resolve"
       THEN /\ ssr' = [ssr EXCEPT !.pc = "done", !.path = "ready callback threw",
                         !.responseHeaders = SsrHeaders(@, <<"t","e","x","t","/","p","l","a","i","n">>, ssr.requestId),
                         !.response = SsrFallback(ssr.responseHeaders, ssr.requestId)]
            /\ console' = SsrLog(<<"S","S","R"," ","c","a","l","l","b","a","c","k"," ","f","a","i","l","e","d">>, RENDER_ERROR)
       ELSE /\ ssr' = [ssr EXCEPT !.pc = "done", !.path = "shell ready",
                         !.responseHeaders =
                            IF thrown = "in pipe"
                              THEN SsrHeaders(SsrHeaders(@, <<"t","e","x","t","/","h","t","m","l">>, ssr.requestId),
                                              <<"t","e","x","t","/","p","l","a","i","n">>, ssr.requestId)
                              ELSE SsrHeaders(@, <<"t","e","x","t","/","h","t","m","l">>, ssr.requestId),
                         !.response = NewResponse(ssr.responseStatusCode,
                                        SsrHeaders(ssr.responseHeaders, <<"t","e","x","t","/","h","t","m","l">>, ssr.requestId))]
            /\ console' = IF thrown = "in pipe"
                            THEN SsrLog(<<"S","S","R"," ","c","a","l","l","b","a","c","k"," ","f","a","i","l","e","d">>, RENDER_ERROR) ELSE <<>>
  /\ UNCHANGED <<hookVars, ctxVars, patchVars, scrubVars, logVars, welVars, clock, san, route, reg>>

\* what onShellError does with the error it is given
SsrShellFailed(error, path) ==
  /\ ssr' = [ssr EXCEPT !.pc = "done", !.path = path,
               !.responseHeaders = SsrHeaders(@, <<"t","e","x","t","/","p","l","a","i","n">>, ssr.requestId),
               !.response = SsrFallback(ssr.responseHeaders, ssr.requestId)]
  /\ console' = SsrLog(<<"S","S","R"," ","s","h","e","l","l"," ","e","r","r","o","r">>, error)
  /\ UNCHANGED <<hookVars, ctxVars, patchVars, scrubVars, logVars, welVars, clock, san, route, reg>>

\* React calls onShellError: the shell could not be rendered
SsrShellError ==
  /\ ssr.pc = "rendering"
  /\ SsrShellFailed(RENDER_ERROR, "shell error")

\* React calls onError: responseStatusCode = 500, and rendering goes on
SsrOnError ==
  /\ ssr.pc \in {"rendering", "done"}
  /\ ssr.timer
  /\ ssr.responseStatusCode # 500
  /\ ssr' = [ssr EXCEPT !.responseStatusCode = 500]
  /\ console' = SsrLog(<<"S","S","R"," ","r","e","n","d","e","r"," ","e","r","r","o","r">>, RENDER_ERROR)
  /\ UNCHANGED <<hookVars, ctxVars, patchVars, scrubVars, logVars, welVars, clock, san, route, reg>>

\* setTimeout(abort, streamTimeout + 1000) fires. React aborts the render:
\* with the shell not yet rendered it calls onShellError; for a bot whose
\* shell is rendered (shellDone) it gives up what is pending and calls
\* onAllReady; after the response it only ends the stream
SsrTimeout(shellDone) ==
  /\ ssr.pc \in {"rendering", "done"}
  /\ ssr.timer
  /\ IF ssr.pc = "done"
       THEN /\ ssr' = [ssr EXCEPT !.timer = FALSE]
            /\ console' = <<>>
            /\ UNCHANGED <<hookVars, ctxVars, patchVars, scrubVars, logVars, welVars, clock, san, route, reg>>
     ELSE IF ssr.bot /\ shellDone
       THEN /\ ssr' = [ssr EXCEPT !.pc = "done", !.path = "stream timeout", !.timer = FALSE,
                         !.responseStatusCode = 500,
                         !.responseHeaders = SsrHeaders(@, <<"t","e","x","t","/","h","t","m","l">>, ssr.requestId),
                         !.response = NewResponse(500,
                                        SsrHeaders(ssr.responseHeaders, <<"t","e","x","t","/","h","t","m","l">>, ssr.requestId))]
            /\ console' = SsrLog(<<"S","S","R"," ","r","e","n","d","e","r"," ","e","r","r","o","r">>, ABORT_ERROR)
            /\ UNCHANGED <<hookVars, ctxVars, patchVars, scrubVars, logVars, welVars, clock, san, route, reg>>
     ELSE SsrShellFailed(ABORT_ERROR, "stream timeout")

\* the response has gone out and the stream has ended
SsrReset ==
  /\ ssr.pc = "done"
  /\ ssr' = SsrIdle
  /\ console' = <<>>
  /\ UNCHANGED <<hookVars, ctxVars, patchVars, scrubVars, logVars, welVars, clock, san, route, reg>>

SsrNext ==
  \/ \E c \in SsrCalls, u \in RandomUuids : SsrHandleRequest(c, u)
  \/ \E thrown \in {"nowhere", "before resolve", "in pipe"} : SsrReady(thrown)
  \/ SsrShellError
  \/ SsrOnError
  \/ \E shellDone \in BOOLEAN : SsrTimeout(shellDone)
  \/ SsrReset

SpecSsr == LogInit /\ [][SsrNext]_vars

\* ------------------------------------------------------------------------
\* The route loaders wrapped in withRequestId: app.tsx and auth.shopify
\* ------------------------------------------------------------------------

\* withRequestIdHeader(response, requestId): a copy of the response with
\* the header set
WithRequestIdHeader(response, requestId) ==
  [response EXCEPT !.headers = HeadersSet(@, REQUEST_ID_HEADER, requestId)]

TEXT_PLAIN == << <<<<"C","o","n","t","e","n","t","-","T","y","p","e">>, <<"t","e","x","t","/","p","l","a","i","n",";"," ","c","h","a","r","s","e","t","=","u","t","f","-","8">>>> >>

\* what authenticate.admin(request) and login(request) may do: return, throw a
\* Response (a redirect into the OAuth flow, a 410, a 401 that already names
\* another request id), or throw an Error
SdkOutcomes ==
  {[kind |-> "return"],
   [kind |-> "throw",
    value |-> NewResponse(302, << <<<<"L","o","c","a","t","i","o","n">>, <<"h","t","t","p","s",":","/","/","s","h","o","p","-","1",".","m","y","s","h","o","p","i","f","y",".","c","o","m","/","a","d","m","i","n","/","o","a","u","t","h","/","a","u","t","h","o","r","i","z","e">>>> >>)],
   [kind |-> "throw",
    value |-> NewResponse(302, << <<<<"L","o","c","a","t","i","o","n">>, <<"/","a","u","t","h","/","l","o","g","i","n">>>>, <<<<"x","-","r","e","q","u","e","s","t","-","i","d">>, <<>>>> >>)],
   [kind |-> "throw", value |-> NewResponse(410, <<>>)],
   [kind |-> "throw",
    value |-> NewResponse(401, << <<<<"X","-","R","e","q","u","e","s","t","-","I","d">>, <<"s","h","o","p","i","f","y","-","e","d","g","e","-","1">>>> >>)],
   [kind |-> "throw", value |-> ErrorV(<<"E","r","r","o","r">>, <<"s","e","s","s","i","o","n"," ","l","o","o","k","u","p"," ","f","a","i","l","e","d">>)]}

\* the requests the loaders get: the route, the inbound headers, the two
\* configuration variables of auth.shopify and the verdict on its shop parameter
RouteCalls ==
  [route : {"app", "auth.shopify"},
   headers : {<<>>, << <<<<"X","-","R","e","q","u","e","s","t","-","I","d">>, <<"r","e","q","-","1">>>> >>, << <<<<"X","-","C","o","r","r","e","l","a","t","i","o","n","-","I","d">>, <<"c","o","r","r","-","1">>>> >>,
              << <<<<"x","-","r","e","q","u","e","s","t","-","i","d">>, <<"r","e","q","-","2">>>>, <<<<"X","-","C","o","r","r","e","l","a","t","i","o","n","-","I","d">>, <<"c","o","r","r","-","1">>>> >>},
   apiKey : BOOLEAN,
   appUrl : BOOLEAN,
   shopOk : BOOLEAN]

\* auth.shopify up to its first await: the response it returns at once, or
\* Undefined when it goes on to call login
AuthShopifyEarly(c, requestId) ==
  IF ~c.apiKey THEN WithRequestIdHeader(NewResponse(500, TEXT_PLAIN), requestId)
  ELSE IF ~c.shopOk THEN WithRequestIdHeader(NewResponse(400, TEXT_PLAIN), requestId)
  ELSE IF ~c.appUrl THEN WithRequestIdHeader(NewResponse(500, TEXT_PLAIN), requestId)
  ELSE Undefined

\* logger.info / logger.error of app.tsx, under the request's id
RouteLog(level, message, meta, requestId) ==
  EmitOutcome(emit(level, Str(message), Obj(<< <<<<"p","a","t","h">>, Str(<<"/","a","p","p">>)>> >> \o meta),
                   Str(requestId), clock)).written

\* the loader is called: withRequestId patches fetch, resolves the id and runs
\* the handler up to its first await
RouteEnter(c, uuid) ==
  /\ route = RouteIdle
  /\ \E p \in {enableFetchRequestIdPropagation(globalFetch, restoreFetchPatch, handles)} :
       /\ globalFetch' = p.globalFetch
       /\ restoreFetchPatch' = p.restoreFetchPatch
       /\ handles' = p.handles
  /\ \E requestId \in {getOrCreateRequestId(c.headers, uuid).v} :
       IF c.route = "app"
         THEN /\ route' = [pc |-> "awaiting", route |-> "app", requestId |-> requestId,
                           request |-> c.headers,
                           settled |-> Undefined, value |-> Undefined]
              /\ console' = RouteLog("info", <<"e","m","b","e","d","d","e","d",".","a","u","t","h",".","s","t","a","r","t">>,
                                     << <<<<"m","e","t","h","o","d">>, Str(<<"G","E","T">>)>> >>, requestId)
         ELSE \E early \in {AuthShopifyEarly(c, requestId)} :
                /\ route' = [pc |-> IF early = Undefined THEN "awaiting" ELSE "settled",
                             route |-> "auth.shopify", requestId |-> requestId,
                             request |-> c.headers,
                             settled |-> IF early = Undefined THEN Undefined ELSE Str("returned"),
                             value |-> early]
                /\ console' = <<>>
  /\ UNCHANGED <<hookVars, ctxVars, runtimePatched, scrubVars, logVars, welVars, clock,
                 san, ssr, reg>>

\* app.tsx after authenticate.admin has settled
AppSettles(o) ==
  IF o.kind = "return"
    THEN [settled |-> Str("returned"), value |-> Obj(<< <<<<"a","p","i","K","e","y">>, Str(<<>>)>> >>),
          log |-> RouteLog("info", <<"e","m","b","e","d","d","e","d",".","a","u","t","h",".","o","k">>, << <<<<"s","h","o","p">>, Undefined>> >>,
                           route.requestId)]
  ELSE IF o.value.t = "response"
    THEN [settled |-> Str("thrown"), value |-> o.value,
          log |-> RouteLog("info", <<"e","m","b","e","d","d","e","d",".","a","u","t","h",".","t","h","r","o","w","n","_","r","e","s","p","o","n","s","e">>,
                           << <<<<"s","t","a","t","u","s">>, Num(o.value.v)>> >>, route.requestId)]
  ELSE [settled |-> Str("thrown"), value |-> o.value,
        log |-> RouteLog("error", <<"e","m","b","e","d","d","e","d",".","a","u","t","h",".","f","a","i","l">>,
                         << <<<<"e","r","r","o","r","M","e","s","s","a","g","e">>, Str(o.value.v[2])>>, <<<<"s","t","a","c","k">>, Undefined>> >>,
                         route.requestId)]

\* auth.shopify after login has settled
AuthShopifySettles(o) ==
  IF o.kind = "return"
    THEN [settled |-> Str("returned"),
          value |-> WithRequestIdHeader(NewResponse(204, <<>>), route.requestId),
          log |-> <<>>]
  ELSE IF o.value.t = "response"
    THEN [settled |-> Str("thrown"), value |-> WithRequestIdHeader(o.value, route.requestId),
          log |-> <<>>]
  ELSE [settled |-> Str("thrown"), value |-> o.value, log |-> <<>>]

\* the SDK call the handler awaits settles and the handler runs to its end
RouteSettles(o) ==
  /\ route.pc = "awaiting"
  /\ \E r \in {IF route.route = "app" THEN AppSettles(o) ELSE AuthShopifySettles(o)} :
       /\ route' = [route EXCEPT !.pc = "settled", !.settled = r.settled, !.value = r.value]
       /\ console' = r.log
  /\ UNCHANGED <<hookVars, ctxVars, patchVars, scrubVars, logVars, welVars, clock,
                 san, ssr, reg>>

\* time passes while the handler waits for the SDK
RouteTick ==
  /\ route.pc = "awaiting"
  /\ clock < MaxClock
  /\ clock' = clock + 1
  /\ UNCHANGED <<lateVars, hookVars, ctxVars, patchVars, scrubVars, logVars, welVars, console>>

\* the framework has taken what the loader returned or threw
RouteReset ==
  /\ route.pc = "settled"
  /\ route' = RouteIdle
  /\ console' = <<>>
  /\ clock' = 0
  /\ UNCHANGED <<hookVars, ctxVars, patchVars, scrubVars, logVars, welVars, san, ssr, reg>>

RouteNext ==
  \/ \E c \in RouteCalls, u \in RandomUuids : RouteEnter(c, u)
  \/ \E o \in SdkOutcomes : RouteSettles(o)
  \/ RouteTick
  \/ RouteReset

SpecRoute == LogInit /\ [][RouteNext]_vars

\* ------------------------------------------------------------------------
\* webhook-registration.server.ts: ensureUninstallWebhookRegistration
\* ------------------------------------------------------------------------

UNINSTALL_TOPIC == <<"A","P","P","_","U","N","I","N","S","T","A","L","L","E","D">>
\* getCallbackUrl(): new URL("/webhooks/app/uninstalled", SHOPIFY_APP_URL).toString()
CALLBACK_URL == <<"h","t","t","p","s",":","/","/","a","p","p",".","e","x","a","m","p","l","e","/","w","e","b","h","o","o","k","s","/","a","p","p","/","u","n","i","n","s","t","a","l","l","e","d">>
STALE_URL == <<"h","t","t","p","s",":","/","/","o","l","d",".","e","x","a","m","p","l","e","/","w","e","b","h","o","o","k","s","/","a","p","p","/","u","n","i","n","s","t","a","l","l","e","d">>
MERCHANT_ID == <<"m","e","r","c","h","a","n","t","-","1">>
OTHER_MERCHANT_ID == <<"m","e","r","c","h","a","n","t","-","2">>

\* the invocations that may run at the same time
Procs == {1, 2}

HttpEndpoint(url) == [typename |-> "WebhookHttpEndpoint", callbackUrl |-> Str(url)]
PubSubEndpoint == [typename |-> "WebhookPubSubEndpoint", callbackUrl |-> Undefined]
Subscription(id, topic, endpoint) ==
  [id |-> id, topic |-> topic, createdAt |-> id, endpoint |-> endpoint]
NoSubscription == Subscription(0, <<>>, PubSubEndpoint)

\* the id of a subscription as the platform writes it
Gid(n) == <<"g","i","d",":","/","/","s","h","o","p","i","f","y","/","W","e","b","h","o","o","k","S","u","b","s","c","r","i","p","t","i","o","n","/">> \o <<DigitSeq[n + 1]>>

\* what the platform holds for the shop before the calls
PlatformStates ==
  {<<>>,
   <<Subscription(1, UNINSTALL_TOPIC, HttpEndpoint(CALLBACK_URL))>>,
   <<Subscription(1, UNINSTALL_TOPIC, HttpEndpoint(STALE_URL))>>,
   <<Subscription(1, UNINSTALL_TOPIC, HttpEndpoint(CALLBACK_URL)),
     Subscription(2, UNINSTALL_TOPIC, HttpEndpoint(CALLBACK_URL))>>,
   <<Subscription(1, UNINSTALL_TOPIC, PubSubEndpoint),
     Subscription(2, UNINSTALL_TOPIC, HttpEndpoint(CALLBACK_URL)),
     Subscription(3, <<"A","P","P","_","S","C","O","P","E","S","_","U","P","D","A","T","E">>, HttpEndpoint(CALLBACK_URL))>>}

Row(merchantId, topic, address, webhookId, createdAt) ==
  [merchantId |-> merchantId, topic |-> topic, address |-> address,
   webhookId |-> webhookId, createdAt |-> createdAt]

\* the MerchantWebhook rows before the calls
DbStates ==
  {{},
   {Row(MERCHANT_ID, UNINSTALL_TOPIC, STALE_URL, 7, 7),
    Row(OTHER_MERCHANT_ID, UNINSTALL_TOPIC, STALE_URL, 8, 8)},
   {Row(MERCHANT_ID, UNINSTALL_TOPIC, CALLBACK_URL, 7, 7),
    Row(MERCHANT_ID, <<"A","P","P","_","S","C","O","P","E","S","_","U","P","D","A","T","E">>, STALE_URL, 6, 6)}}

ProcIdle ==
  [pc |-> "idle", primary |-> NoSubscription, targets |-> <<>>, listed |-> <<>>,
   created |-> FALSE, result |-> [success |-> FALSE, webhookId |-> 0]]

\* endpoint?.__typename === "WebhookHttpEndpoint" ? endpoint?.callbackUrl : null
callbackUrlValue(subscription) ==
  IF subscription.endpoint.typename = "WebhookHttpEndpoint"
    THEN subscription.endpoint.callbackUrl ELSE Null

IsMatching(subscription, callbackUrl) ==
  subscription.topic = UNINSTALL_TOPIC /\ callbackUrlValue(subscription) = Str(callbackUrl)

\* the two filters of ensureUninstallWebhookRegistration
Matching(subscriptions, callbackUrl) ==
  LET Keep(s) == IsMatching(s, callbackUrl) IN SelectSeq(subscriptions, Keep)
NonMatching(subscriptions, callbackUrl) ==
  LET Keep(s) == ~IsMatching(s, callbackUrl) IN SelectSeq(subscriptions, Keep)

\* webhookSubscriptions(topics: [APP_UNINSTALLED]): what the platform lists
fetchWebhookSubscriptions(subscriptions) ==
  LET Keep(s) == s.topic = UNINSTALL_TOPIC IN SelectSeq(subscriptions, Keep)

\* webhookSubscriptionDelete(id) on the platform
RemoveSubscription(subscriptions, id) ==
  LET Keep(s) == s.id # id IN SelectSeq(subscriptions, Keep)

HasSubscription(subscriptions, id) == \E i \in 1..Len(subscriptions) : subscriptions[i].id = id

\* the rows of other addresses are left where they are
deleteManyRows_none(rows, merchantId, topic, callbackUrl) == rows

\* prisma.merchantWebhook.deleteMany of persistWebhookMetadata
deleteManyRows(rows, merchantId, topic, callbackUrl) ==
  {r \in rows : ~(r.merchantId = merchantId /\ r.topic = topic /\ r.address # callbackUrl)}

\* prisma.merchantWebhook.upsert of persistWebhookMetadata
upsertRow(rows, merchantId, webhook, callbackUrl) ==
  {r \in rows : ~(r.merchantId = merchantId /\ r.topic = webhook.topic /\ r.address = callbackUrl)}
    \cup {Row(merchantId, webhook.topic, callbackUrl, webhook.id, webhook.createdAt)}

\* logger.info / logger.error of the registration
RegLog(level, message, meta) ==
  EmitOutcome(emit(level, Str(message),
                   Obj(<< <<<<"s","h","o","p","D","o","m","a","i","n">>, Str(SHOP_DOMAIN)>> >> \o meta),
                   Undefined, clock)).written

\* the catch block: the failure is logged and { success: false } returned
RegFails(p, message) ==
  /\ reg' = [reg EXCEPT !.procs[p].pc = "returned",
                        !.procs[p].result = [success |-> FALSE, webhookId |-> 0]]
  /\ console' = RegLog("error", <<"w","e","b","h","o","o","k",".","u","n","i","n","s","t","a","l","l",".","r","e","g","i","s","t","r","a","t","i","o","n","_","f","a","i","l","e","d">>,
                       << <<<<"m","e","r","c","h","a","n","t","I","d">>, Str(MERCHANT_ID)>>, <<<<"e","r","r","o","r","N","a","m","e">>, Str(<<"E","r","r","o","r">>)>>,
                          <<<<"e","r","r","o","r","M","e","s","s","a","g","e">>, Str(message)>> >>)

\* where an invocation goes once it has its primary subscription
AfterPrimary(targets) == IF targets = <<>> THEN "deleteMany" ELSE "delete"

RegQuiet ==
  UNCHANGED <<hookVars, ctxVars, patchVars, scrubVars, logVars, welVars, clock, san, ssr, route>>

\* the platform and the database as the invocations find them
RegArrange(subscriptions, rows) ==
  /\ reg = RegIdle
  /\ reg' = [subscriptions |-> subscriptions, rows |-> rows,
             procs |-> [p \in Procs |-> ProcIdle], nextId |-> Len(subscriptions) + 1]
  /\ console' = <<>>
  /\ RegQuiet

Running(proc) == proc.pc \notin {"idle", "returned"}

\* ensureUninstallWebhookRegistration is called and sends the list query
RegCall(p) ==
  /\ reg # RegIdle
  /\ reg.procs[p].pc = "idle"
  /\ reg' = [reg EXCEPT !.procs[p].pc = "list"]
  /\ console' = <<>>
  /\ RegQuiet

\* the list query is answered
RegList(p, ok) ==
  /\ reg # RegIdle
  /\ reg.procs[p].pc = "list"
  /\ IF ok
       THEN LET subscriptions == fetchWebhookSubscriptions(reg.subscriptions)
                matching == Matching(subscriptions, CALLBACK_URL)
                nonMatching == NonMatching(subscriptions, CALLBACK_URL)
            IN /\ reg' = [reg EXCEPT
                     !.procs[p].listed = subscriptions,
                     !.procs[p].primary = IF matching = <<>> THEN NoSubscription ELSE matching[1],
                     !.procs[p].targets = IF matching = <<>> THEN nonMatching
                                          ELSE Tail(matching) \o nonMatching,
                     !.procs[p].pc = IF matching = <<>> THEN "create"
                                     ELSE AfterPrimary(Tail(matching) \o nonMatching)]
               /\ console' = <<>>
       ELSE RegFails(p, <<"F","a","i","l","e","d"," ","t","o"," ","f","e","t","c","h"," ","w","e","b","h","o","o","k"," ","s","u","b","s","c","r","i","p","t","i","o","n","s"," ","(","s","t","a","t","u","s"," ","5","0","2",")",".">>)
  /\ RegQuiet

\* the create mutation is answered
RegCreate(p, ok) ==
  /\ reg # RegIdle
  /\ reg.procs[p].pc = "create"
  /\ IF ok
       THEN LET webhook == Subscription(reg.nextId, UNINSTALL_TOPIC, HttpEndpoint(CALLBACK_URL))
            IN /\ reg' = [reg EXCEPT
                     !.subscriptions = Append(@, webhook),
                     !.nextId = @ + 1,
                     !.procs[p].primary = webhook,
                     !.procs[p].created = TRUE,
                     !.procs[p].pc = AfterPrimary(reg.procs[p].targets)]
               /\ console' = RegLog("info", <<"w","e","b","h","o","o","k",".","u","n","i","n","s","t","a","l","l",".","c","r","e","a","t","e","d">>,
                                    << <<<<"w","e","b","h","o","o","k","I","d">>, Str(Gid(webhook.id))>> >>)
       ELSE RegFails(p, <<"F","a","i","l","e","d"," ","t","o"," ","c","r","e","a","t","e"," ","w","e","b","h","o","o","k"," ","s","u","b","s","c","r","i","p","t","i","o","n",":"," ","A","d","d","r","e","s","s"," ","f","o","r"," ","t","h","i","s"," ","t","o","p","i","c"," ","h","a","s"," ","a","l","r","e","a","d","y"," ","b","e","e","n"," ","t","a","k","e","n">>)
  /\ RegQuiet

\* the delete mutation for the next cleanup target is answered; the platform
\* answers userErrors for a subscription that is no longer there
RegDelete(p, ok) ==
  /\ reg # RegIdle
  /\ reg.procs[p].pc = "delete"
  /\ LET subscription == Head(reg.procs[p].targets)
     IN IF ok /\ HasSubscription(reg.subscriptions, subscription.id)
          THEN /\ reg' = [reg EXCEPT
                     !.subscriptions = RemoveSubscription(@, subscription.id),
                     !.procs[p].targets = Tail(@),
                     !.procs[p].pc = AfterPrimary(Tail(reg.procs[p].targets))]
               /\ console' = RegLog("info", <<"w","e","b","h","o","o","k",".","u","n","i","n","s","t","a","l","l",".","d","e","l","e","t","e","d","_","d","u","p","l","i","c","a","t","e">>,
                                    << <<<<"w","e","b","h","o","o","k","I","d">>, Str(Gid(subscription.id))>> >>)
          ELSE RegFails(p, <<"F","a","i","l","e","d"," ","t","o"," ","d","e","l","e","t","e"," ","w","e","b","h","o","o","k"," ","s","u","b","s","c","r","i","p","t","i","o","n",":"," ","W","e","b","h","o","o","k"," ","s","u","b","s","c","r","i","p","t","i","o","n"," ","d","o","e","s"," ","n","o","t"," ","e","x","i","s","t">>)
  /\ RegQuiet

\* persistWebhookMetadata: deleteMany is answered
RegDeleteMany(p, ok) ==
  /\ reg # RegIdle
  /\ reg.procs[p].pc = "deleteMany"
  /\ IF ok
       THEN /\ reg' = [reg EXCEPT
                  !.rows = deleteManyRows(@, MERCHANT_ID, reg.procs[p].primary.topic, CALLBACK_URL),
                  !.procs[p].pc = "upsert"]
            /\ console' = <<>>
       ELSE RegFails(p, <<"C","a","n"," ","n","o","t"," ","r","e","a","c","h"," ","d","a","t","a","b","a","s","e"," ","s","e","r","v","e","r">>)
  /\ RegQuiet

\* persistWebhookMetadata: upsert is answered, and the invocation returns
RegUpsert(p, ok) ==
  /\ reg # RegIdle
  /\ reg.procs[p].pc = "upsert"
  /\ IF ok
       THEN /\ reg' = [reg EXCEPT
                  !.rows = upsertRow(@, MERCHANT_ID, reg.procs[p].primary, CALLBACK_URL),
                  !.procs[p].pc = "returned",
                  !.procs[p].result = [success |-> TRUE, webhookId |-> reg.procs[p].primary.id]]
            /\ console' = <<>>
       ELSE RegFails(p, <<"C","a","n"," ","n","o","t"," ","r","e","a","c","h"," ","d","a","t","a","b","a","s","e"," ","s","e","r","v","e","r">>)
  /\ RegQuiet

\* the invocations have returned and their results have been taken
RegReset ==
  /\ reg # RegIdle
  /\ \A p \in Procs : ~Running(reg.procs[p])
  /\ reg' = RegIdle
  /\ console' = <<>>
  /\ RegQuiet

RegNext ==
  \/ \E subscriptions \in PlatformStates, rows \in DbStates : RegArrange(subscriptions, rows)
  \/ \E p \in Procs : RegCall(p)
  \/ \E p \in Procs, ok \in BOOLEAN : RegList(p, ok)
  \/ \E p \in Procs, ok \in BOOLEAN : RegCreate(p, ok)
  \/ \E p \in Procs, ok \in BOOLEAN : RegDelete(p, ok)
  \/ \E p \in Procs, ok \in BOOLEAN : RegDeleteMany(p, ok)
  \/ \E p \in Procs, ok \in BOOLEAN : RegUpsert(p, ok)
  \/ RegReset

SpecRegistration == LogInit /\ [][RegNext]_vars

\* ------------------------------------------------------------------------
\* Claims about the message scrubber
\* ------------------------------------------------------------------------

\* the message scrubber put a marker in the place of the whole string
MessageBlanked == scrubRet.message \in {REDACTED, BEARER_REDACTED} /\ scrubRet.message # scrubCall.arg

\* C21: whenever the message scrubber replaces a string as a whole with a
\* marker, the value scrubber does not return that string unchanged.
C21_MessageMoreConservative ==
  (ScrubDone /\ MessageBlanked) => scrubRet.value # scrubCall.arg

\* ------------------------------------------------------------------------
\* Claims about errorMessage (SpecErrorMessage)
\* ------------------------------------------------------------------------

\* the value-context scrubber of the module that was called
ValueScrubbed(s) ==
  IF logCall.fn = "redactForLogs" THEN redactString(s) ELSE sanitizeValue_logger(Str(s)).v

\* C22: a string under the key errorMessage comes out as the value scrubber
\* makes it: under its key, with the secrets it embeds replaced and the rest of
\* its text kept, and not blanked by the key-name rule.
C22_ErrorMessageScrubbed ==
  (ProbeDone /\ logCall.probe.key = ERROR_MESSAGE_KEY /\ logCall.probe.val.t = "string") =>
    /\ AllReturned
    /\ ProbeKept(1)
    /\ ProbeValue(1) = Str(ValueScrubbed(logCall.probe.val.v))
    /\ ~HoldsTokenPrefix(ProbeValue(1).v)

C22_Witness ==
  /\ LoggerDone
  /\ logCall.probe.val = Str(OAUTH_FAILURE)
  /\ Get(console[1].line, ERROR_MESSAGE_KEY) =
       Str(<<"f","a","i","l","e","d"," ","w","i","t","h"," ","c","o","d","e","=","[","R","E","D","A","C","T","E","D","]","&","h","m","a","c","=","[","R","E","D","A","C","T","E","D","]","&","s","t","a","t","e","=","[","R","E","D","A","C","T","E","D","]"," ","t","o","k","e","n","=","[","R","E","D","A","C","T","E","D","]">>)

\* ------------------------------------------------------------------------
\* Claims about the caps of the sanitizer (SpecLog)
\* ------------------------------------------------------------------------

\* the entry under test sits in an object MaxDepth containers down, so its
\* value is nested MaxDepth + 1 levels below the metadata
ValueBeyondDepth == ProbeDone /\ AllReturned /\ logCall.probe.nest = MaxDepth

\* the object of the entry under test is itself nested beyond MaxDepth
ObjectBeyondDepth == ProbeDone /\ AllReturned /\ logCall.probe.nest > MaxDepth

\* redact.server.ts scrubs a string under errorMessage before any other rule
ErrorMessageRule ==
  /\ logCall.fn = "redactForLogs"
  /\ logCall.probe.key = ERROR_MESSAGE_KEY
  /\ logCall.probe.val.t = "string"

\* C23 as stated: whatever sits more than 6 levels below the metadata is
\* replaced by "[Truncated]", and nothing of it is copied into the output.
C23_BeyondDepthTruncated ==
  /\ ValueBeyondDepth => (ProbeKept(1) /\ ProbeValue(1) = Str(TRUNCATED_MARK))
  /\ ObjectBeyondDepth =>
       (ProbeParent(Output(1), logCall.probe.nest) = Str(TRUNCATED_MARK) /\ ~ProbeLeaks(1))

\* C23 as amended: a value more than 6 levels below the metadata is replaced
\* by "[Truncated]", or by the marker of the key-name rule when its key is a
\* sensitive or body key; redact.server.ts copies a string under errorMessage
\* in scrubbed form; in every other case nothing of the value reaches the
\* output, and an object beyond the cap is replaced as a whole.
C23_BeyondDepthNotDescended ==
  /\ ValueBeyondDepth =>
       /\ ProbeKept(1)
       /\ IF ErrorMessageRule THEN ProbeValue(1) = Str(redactString(logCall.probe.val.v))
          ELSE /\ ProbeValue(1) \in {Str(TRUNCATED_MARK), Str(REDACTED), Str(OMITTED_MARK)}
               /\ ProbeValue(1) # Str(TRUNCATED_MARK) =>
                    (KeyIsSensitive \/ KeyIsBody \/ Includes(logCall.probe.key, <<"s","s","n">>))
               /\ ~ProbeLeaks(1)
  /\ ObjectBeyondDepth =>
       (ProbeParent(Output(1), logCall.probe.nest) = Str(TRUNCATED_MARK) /\ ~ProbeLeaks(1))

C23_Witness ==
  /\ ValueBeyondDepth
  /\ LoggerDone
  /\ logCall.probe.key = <<"w","e","b","h","o","o","k","I","d">>
  /\ logCall.probe.val = Str(SECRET)
  /\ ProbeValue(1) = Str(TRUNCATED_MARK)

\* ------------------------------------------------------------------------
\* Claims about wide arrays and objects (SpecWide)
\* ------------------------------------------------------------------------

WideDone == ProbeDone /\ logCall.probe.key \in {<<>>, <<"c","t","x">>}

WideInput == logCall.probe.val

\* the depth at which the sanitizer meets the input
WideDepth == IF logCall.probe.key = <<>> THEN 0 ELSE 1

\* what the sanitizer made of the input
WideOutput == IF logCall.probe.key = <<>> THEN Output(1) ELSE ProbeValue(1)

Smaller(a, b) == IF a < b THEN a ELSE b

\* the i-th element of the input, sanitized
SanitizedElement(i) ==
  IF logCall.fn = "redactForLogs"
    THEN sanitizeMeta_redact(WideInput.v[i], WideDepth + 1)
    ELSE sanitizeMeta_logger(WideInput.v[i], WideDepth + 1)

\* the value of the i-th entry of the input, sanitized
SanitizedEntry(i) ==
  IF logCall.fn = "redactForLogs"
    THEN sanitizeEntry_redact(WideInput.v[i][1], WideInput.v[i][2], WideDepth)
    ELSE sanitizeEntry_logger(WideInput.v[i][1], WideInput.v[i][2], WideDepth)

\* the input names one of its first 100 entries __truncated__
NamesTruncated == \E i \in 1..EntryCap : i <= Len(WideInput.v) /\ WideInput.v[i][1] = TRUNCATED_KEY

SanRunning == san.pc = "running"
SanReturned == san.pc = "returned"

\* C30: every call of the sanitizer, also one on a structure that contains
\* itself, comes to its end and returns a value.
C30_SanitizeTerminates == SanRunning ~> SanReturned

\* { self: ..., id: 7 } unrolled n times, "[Truncated]" innermost
RECURSIVE Unrolled(_)
Unrolled(n) ==
  IF n = 0 THEN Obj(<< <<<<"s","e","l","f">>, Str(TRUNCATED_MARK)>>, <<<<"i","d">>, Str(TRUNCATED_MARK)>> >>)
  ELSE Obj(<< <<<<"s","e","l","f">>, Unrolled(n - 1)>>, <<<<"i","d">>, Num(7)>> >>)

C30_Witness ==
  /\ SanReturned
  /\ san.in = SELF_OBJECT
  /\ san.result = Unrolled(MaxDepth)

\* ------------------------------------------------------------------------
\* Claims about handleRequest (SpecSsr)
\* ------------------------------------------------------------------------

\* handleRequest has produced its Response
SsrResponded == ssr.pc = "done"

\* C25: the Response handleRequest produces carries X-Request-Id equal to
\* the id resolved for the request, on every path: shell ready, an exception in
\* the ready callback, shell error, a failure to start rendering, and the abort
\* of the stream timeout.
C25_SsrResponseCarriesId ==
  SsrResponded =>
    /\ ssr.path \in {"shell ready", "ready callback threw", "shell error",
                     "synchronous failure", "stream timeout"}
    /\ HeadersGet(ssr.response.headers, <<"X","-","R","e","q","u","e","s","t","-","I","d">>) = Str(ssr.requestId)

C25_Witness ==
  /\ SsrResponded
  /\ ssr.path = "stream timeout"
  /\ ssr.requestId = <<"r","e","q","-","1">>
  /\ ssr.response.v = 500
  /\ HeadersGet(ssr.response.headers, <<"X","-","R","e","q","u","e","s","t","-","I","d">>) = Str(<<"r","e","q","-","1">>)
  /\ HeadersGet(ssr.response.headers, <<"C","o","n","t","e","n","t","-","S","e","c","u","r","i","t","y","-","P","o","l","i","c","y">>) # Null

\* ------------------------------------------------------------------------
\* Claims about the wrapped route loaders (SpecRoute)
\* ------------------------------------------------------------------------

\* the loader has returned or thrown a Response
RouteGaveResponse == route.pc = "settled" /\ route.value.t = "response"

\* C26: every Response a route handler wrapped in withRequestId returns or
\* throws, a Response thrown by the authentication SDK and passed on included,
\* carries X-Request-Id equal to the id resolved for the request.
C26_RouteResponseCarriesId ==
  RouteGaveResponse =>
    HeadersGet(route.value.headers, <<"X","-","R","e","q","u","e","s","t","-","I","d">>) = Str(route.requestId)

\* what does hold: the Responses auth.shopify returns or throws carry the id
C26_AuthShopifyCarriesId ==
  (RouteGaveResponse /\ route.route = "auth.shopify") =>
    HeadersGet(route.value.headers, <<"X","-","R","e","q","u","e","s","t","-","I","d">>) = Str(route.requestId)

C26_AuthShopifyReached ==
  /\ RouteGaveResponse
  /\ route.route = "auth.shopify"
  /\ route.settled = Str("thrown")
  /\ route.value.v = 401

\* ------------------------------------------------------------------------
\* Claims about ensureUninstallWebhookRegistration (SpecRegistration)
\* ------------------------------------------------------------------------

\* the APP_UNINSTALLED subscriptions at the expected callback URL
MatchingNow == Matching(reg.subscriptions, CALLBACK_URL)

BothReturned ==
  /\ reg # RegIdle
  /\ \A p \in Procs : reg.procs[p].pc = "returned" /\ reg.procs[p].result.success

\* C27: once two concurrent invocations for the same shop have both returned,
\* at most one APP_UNINSTALLED subscription points at the expected callback
\* URL, whatever the interleaving of their list, create and delete calls.
C27_AtMostOneSubscription == BothReturned => Len(MatchingNow) <= 1

\* invocation p ran by itself and returned success
ReturnedAlone(p) ==
  /\ reg # RegIdle
  /\ reg.procs[p].pc = "returned"
  /\ reg.procs[p].result.success
  /\ \A q \in Procs \ {p} : reg.procs[q].pc = "idle"

\* the subscriptions invocation p listed, and the one it created
Known(p) ==
  Range(reg.procs[p].listed)
    \cup (IF reg.procs[p].created THEN {reg.procs[p].primary} ELSE {})

\* C28: when a single invocation returns success with no concurrent change, of
\* the subscriptions it listed plus the one it may have created exactly one
\* remains on the platform, at the expected callback URL and with the returned
\* webhookId, every other listed subscription is deleted, and the database
\* holds exactly one MerchantWebhook row for the merchant and topic, with that
\* address and webhookId.
C28_PlatformAndDbAgree ==
  \A p \in Procs :
    ReturnedAlone(p) =>
      LET remaining == {s \in Known(p) : HasSubscription(reg.subscriptions, s.id)}
          rows == {r \in reg.rows : r.merchantId = MERCHANT_ID /\ r.topic = UNINSTALL_TOPIC}
      IN /\ Cardinality(remaining) = 1
         /\ \A s \in remaining :
              /\ callbackUrlValue(s) = Str(CALLBACK_URL)
              /\ s.id = reg.procs[p].result.webhookId
         /\ \A s \in Range(reg.procs[p].listed) :
              s.id # reg.procs[p].result.webhookId => ~HasSubscription(reg.subscriptions, s.id)
         /\ Cardinality(rows) = 1
         /\ \A r \in rows :
              r.address = CALLBACK_URL /\ r.webhookId = reg.procs[p].result.webhookId

C28_Witness ==
  /\ ReturnedAlone(1)
  /\ reg.procs[1].created
  /\ Len(reg.procs[1].listed) = 1
  /\ Len(reg.subscriptions) = 1
  /\ Row(OTHER_MERCHANT_ID, UNINSTALL_TOPIC, STALE_URL, 8, 8) \in reg.rows
  /\ Row(MERCHANT_ID, UNINSTALL_TOPIC, CALLBACK_URL, 2, 2) \in reg.rows

\* ------------------------------------------------------------------------
\* Claims about the checks of the app-uninstalled webhook action (SpecHook)
\* ------------------------------------------------------------------------

\* the request's HMAC header carries the digest of its raw body under the
\* configured secret
SignedBody(req) ==
  /\ req.secret # Undefined
  /\ req.hmacHeader # Null
  /\ Base64Decode(req.hmacHeader.v) = HmacSha256(req.secret.v, req.rawBody)

UninstallTopic(req) == req.topic = Str(<<"a","p","p","/","u","n","i","n","s","t","a","l","l","e","d">>)

\* C29: the action writes to the database (merchant marked uninstalled,
\* sessions deleted) only after the HMAC has been verified against the raw body
\* and the topic header equals app/uninstalled; a request failing the HMAC
\* check is answered 401, one failing the topic check 403, both with no write.
C29_WritesOnlyAfterChecks ==
  /\ hook.pc = "cleanup" => (SignedBody(hook.req) /\ UninstallTopic(hook.req))
  /\ hook.pc = "done" =>
       /\ hook.writes # <<>> => (SignedBody(hook.req) /\ UninstallTopic(hook.req))
       /\ ~SignedBody(hook.req) => (hook.response.v = 401 /\ hook.writes = <<>>)
       /\ (SignedBody(hook.req) /\ ~UninstallTopic(hook.req)) =>
            (hook.response.v = 403 /\ hook.writes = <<>>)

C29_Witness ==
  /\ hook.pc = "done"
  /\ hook.req.hmacHeader.t = "string"
  /\ Len(hook.req.hmacHeader.v) = 5
  /\ Len(hook.writes) = 2
  /\ hook.writes[1].op = "merchant.updateMany"
  /\ hook.writes[1].count = 1
  /\ hook.response.v = 200
=============================================================================
